---- MODULE Spec2Model ----
(***************************************************************************)
(* telsh: embedded telnet debug shell.                                     *)
(*   TelnetSession   (src/include/telsh/telnet_session.hpp)                *)
(*   CommandRegistry (src/include/telsh/command_registry.hpp)              *)
(*   TelnetServer    (src/include/telsh/telnet_server.hpp)                 *)
(*                                                                         *)
(* Characters are bytes 0..255 and C strings are sequences of bytes        *)
(* without the terminating NUL.  static_cast<char>(byte) keeps the bit     *)
(* pattern, and every comparison the code makes is against a value below   *)
(* 128, so a char is modelled by its byte value.                           *)
(***************************************************************************)
EXTENDS Integers, Sequences, FiniteSets, TLC

-----------------------------------------------------------------------------
(* Sizes.  The source's table sizes are scaled down so that the full and   *)
(* the truncating cases are reached; each keeps the source's name.         *)

\* TelnetSession::kMaxCmdLen (256 in the source): line buffer size incl. NUL
kMaxCmdLen == 5
\* sizeof(user_buf_) (64 in the source): username buffer size incl. NUL
kUserBufSize == 3
\* TelnetSession::kHistorySize (16 in the source)
kHistorySize == 2
\* TelnetServer::kMaxSessions: size of the slot array
kMaxSessions == 8
\* ServerConfig::max_sessions values the server is configured with: 1..MaxCfgSessions
MaxCfgSessions == 2
\* CommandRegistry::kMaxCommands (64 in the source)
kMaxCommands == 2

-----------------------------------------------------------------------------
(* Bytes the code names or compares against.                               *)

kSE == 240
kSB == 250
kWILL == 251
kWONT == 252
kDO == 253
kDONT == 254
kIAC == 255
kOptEcho == 1
kOptSGA == 3
kOptNAWS == 31
ChESC == 27
ChXOFF == 19
ChXON == 17
ChBS == 8
ChDEL == 127
ChCR == 13
ChLF == 10
ChLBracket == 91
ChUp == 65
ChDown == 66
ChRight == 67
ChA == 97
ChB == 98

StrUsernamePrompt == <<117, 115, 101, 114, 110, 97, 109, 101, 58, 32>>
StrPasswordPrompt == <<112, 97, 115, 115, 119, 111, 114, 100, 58, 32>>
StrLoginOK == <<76, 111, 103, 105, 110, 32, 79, 75, 46, 13, 10>>
StrLoginFailed == <<76, 111, 103, 105, 110, 32, 102, 97, 105, 108, 101, 100, 46, 13, 10>>
StrBye == <<66, 121, 101, 46, 13, 10>>
StrExit == <<101, 120, 105, 116>>
StrQuit == <<113, 117, 105, 116>>
StrHelp == <<104, 101, 108, 112>>
StrServerFull == <<83, 101, 114, 118, 101, 114, 32, 102, 117, 108, 108, 46, 13, 10>>
StrEraseSeq == <<8, 32, 8>>
StrCRLF == <<13, 10>>
StrStar == <<42>>
StrPrompt == <<36, 32>>

\* nullptr for a const char*: a value no C string equals
NullStr == <<-1>>

Take(str, n) == SubSeq(str, 1, IF Len(str) < n THEN Len(str) ELSE n)

RECURSIVE Repeat(_, _)
Repeat(str, n) == IF n <= 0 THEN <<>> ELSE str \o Repeat(str, n - 1)

-----------------------------------------------------------------------------
(* TelnetSession                                                           *)

\* TelnetSession(): the member initializers
NewSession ==
  [sock_fd |-> -1, running |-> FALSE,
   username |-> NullStr, password |-> NullStr, prompt |-> StrPrompt, banner |-> NullStr,
   iac_phase |-> "kNormal", iac_prev |-> 0,
   auth |-> "kAuthorized", user_buf |-> <<>>,
   arrow |-> "kNone",
   cmd_buf |-> <<>>,
   history |-> [i \in 0..(kHistorySize - 1) |-> <<>>],
   history_count |-> 0, history_write |-> 0, history_nav |-> -1,
   output_paused |-> FALSE,
   \* the kernel's state of the socket sock_fd_ names
   shut |-> FALSE, closes |-> 0,
   \* of the last step: what it passed to Send, what Send passed on to ::send,
   \* and the lines it handed to CommandRegistry::Execute
   emit |-> <<>>, out |-> <<>>, exec |-> <<>>]

\* SessionConfig values, as the server or a test builds them
SessionConfig(username, password, prompt, banner) ==
  [username |-> username, password |-> password, prompt |-> prompt, banner |-> banner]

\* Init that leaves the login state, the history and the pause flag of the
\* session's previous connection
Init_Session_KeepsState(s, fd, cfg) ==
  [s EXCEPT !.sock_fd = fd, !.running = TRUE,
            !.username = cfg.username, !.password = cfg.password,
            !.prompt = cfg.prompt, !.banner = cfg.banner,
            !.cmd_buf = <<>>, !.user_buf = <<>>,
            !.history_nav = -1,
            !.iac_phase = "kNormal", !.iac_prev = 0,
            !.arrow = "kNone",
            !.shut = FALSE, !.closes = 0, !.emit = <<>>, !.out = <<>>, !.exec = <<>>]

Init_Session(s, fd, cfg) ==
  [s EXCEPT !.sock_fd = fd, !.running = TRUE,
            !.username = cfg.username, !.password = cfg.password,
            !.prompt = cfg.prompt, !.banner = cfg.banner,
            !.cmd_buf = <<>>, !.user_buf = <<>>,
            !.history = [i \in 0..(kHistorySize - 1) |-> <<>>],
            !.history_count = 0, !.history_write = 0, !.history_nav = -1,
            !.output_paused = FALSE,
            !.iac_phase = "kNormal", !.iac_prev = 0,
            !.arrow = "kNone",
            !.auth = IF cfg.username # NullStr /\ cfg.password # NullStr
                     THEN "kNeedUser" ELSE "kAuthorized",
            !.shut = FALSE, !.closes = 0, !.emit = <<>>, !.out = <<>>, !.exec = <<>>]

\* ::send(sock_fd_, data, len, MSG_NOSIGNAL): fails on a socket shut down for writing
SysSend(s, data) == IF s.shut THEN s ELSE [s EXCEPT !.out = @ \o data]

Send(s, data) ==
  IF data = NullStr \/ Len(data) = 0 \/ s.sock_fd < 0 THEN s
  ELSE LET called == [s EXCEPT !.emit = @ \o data]
       IN IF called.output_paused THEN called ELSE SysSend(called, data)

SendStr(s, str) == IF str # NullStr THEN Send(s, str) ELSE s

SendIac(s, cmd, opt) == Send(s, <<kIAC, cmd, opt>>)

\* Stop that flips the running flag but leaves the socket alone
Stop_Session_NoShutdown(s) == [s EXCEPT !.running = FALSE]

\* TelnetSession::Stop: running_ = false, then shutdown(sock_fd_, SHUT_RDWR)
Stop_Session(s) ==
  [s EXCEPT !.running = FALSE, !.shut = IF s.sock_fd >= 0 THEN TRUE ELSE @]

\* Close that forgets the descriptor without closing it
Close_Leak(s) == [s EXCEPT !.sock_fd = -1]

\* TelnetSession::Close: close(sock_fd_) and sock_fd_ = -1, if a socket is held
Close(s) ==
  IF s.sock_fd >= 0 THEN [s EXCEPT !.sock_fd = -1, !.closes = @ + 1] ELSE s

\* FilterIac that hands the option byte of a negotiation to the caller
FilterIac_OptionDelivered(s, byte) ==
  CASE s.iac_phase = "kNormal" ->
         IF byte = kIAC THEN [s |-> [s EXCEPT !.iac_phase = "kIac"], c |-> 0]
         ELSE [s |-> s, c |-> byte]
    [] s.iac_phase = "kIac" ->
         IF byte = kIAC THEN [s |-> [s EXCEPT !.iac_phase = "kNormal"], c |-> byte]
         ELSE IF byte >= kWILL /\ byte <= kDONT
           THEN [s |-> [s EXCEPT !.iac_phase = "kNego"], c |-> 0]
         ELSE IF byte = kSB
           THEN [s |-> [s EXCEPT !.iac_phase = "kSub", !.iac_prev = 0], c |-> 0]
         ELSE [s |-> [s EXCEPT !.iac_phase = "kNormal"], c |-> 0]
    [] s.iac_phase = "kNego" ->
         [s |-> [s EXCEPT !.iac_phase = "kNormal"], c |-> byte]
    [] s.iac_phase = "kSub" ->
         [s |-> [s EXCEPT !.iac_phase = IF s.iac_prev = kIAC /\ byte = kSE
                                        THEN "kNormal" ELSE @,
                          !.iac_prev = byte],
          c |-> 0]

\* FilterIac that consumes both bytes of IAC IAC
FilterIac_EscapeDropped(s, byte) ==
  CASE s.iac_phase = "kNormal" ->
         IF byte = kIAC THEN [s |-> [s EXCEPT !.iac_phase = "kIac"], c |-> 0]
         ELSE [s |-> s, c |-> byte]
    [] s.iac_phase = "kIac" ->
         IF byte = kIAC THEN [s |-> [s EXCEPT !.iac_phase = "kNormal"], c |-> 0]
         ELSE IF byte >= kWILL /\ byte <= kDONT
           THEN [s |-> [s EXCEPT !.iac_phase = "kNego"], c |-> 0]
         ELSE IF byte = kSB
           THEN [s |-> [s EXCEPT !.iac_phase = "kSub", !.iac_prev = 0], c |-> 0]
         ELSE [s |-> [s EXCEPT !.iac_phase = "kNormal"], c |-> 0]
    [] s.iac_phase = "kNego" ->
         [s |-> [s EXCEPT !.iac_phase = "kNormal"], c |-> 0]
    [] s.iac_phase = "kSub" ->
         [s |-> [s EXCEPT !.iac_phase = IF s.iac_prev = kIAC /\ byte = kSE
                                        THEN "kNormal" ELSE @,
                          !.iac_prev = byte],
          c |-> 0]

\* FilterIac that ends a subnegotiation at any SE
FilterIac_AnySEEnds(s, byte) ==
  CASE s.iac_phase = "kNormal" ->
         IF byte = kIAC THEN [s |-> [s EXCEPT !.iac_phase = "kIac"], c |-> 0]
         ELSE [s |-> s, c |-> byte]
    [] s.iac_phase = "kIac" ->
         IF byte = kIAC THEN [s |-> [s EXCEPT !.iac_phase = "kNormal"], c |-> byte]
         ELSE IF byte >= kWILL /\ byte <= kDONT
           THEN [s |-> [s EXCEPT !.iac_phase = "kNego"], c |-> 0]
         ELSE IF byte = kSB
           THEN [s |-> [s EXCEPT !.iac_phase = "kSub", !.iac_prev = 0], c |-> 0]
         ELSE [s |-> [s EXCEPT !.iac_phase = "kNormal"], c |-> 0]
    [] s.iac_phase = "kNego" ->
         [s |-> [s EXCEPT !.iac_phase = "kNormal"], c |-> 0]
    [] s.iac_phase = "kSub" ->
         [s |-> [s EXCEPT !.iac_phase = IF byte = kSE
                                        THEN "kNormal" ELSE @,
                          !.iac_prev = byte],
          c |-> 0]

\* FilterIac: the session after the byte, and the char returned (0 = consumed)
FilterIac(s, byte) ==
  CASE s.iac_phase = "kNormal" ->
         IF byte = kIAC THEN [s |-> [s EXCEPT !.iac_phase = "kIac"], c |-> 0]
         ELSE [s |-> s, c |-> byte]
    [] s.iac_phase = "kIac" ->
         IF byte = kIAC THEN [s |-> [s EXCEPT !.iac_phase = "kNormal"], c |-> byte]
         ELSE IF byte >= kWILL /\ byte <= kDONT
           THEN [s |-> [s EXCEPT !.iac_phase = "kNego"], c |-> 0]
         ELSE IF byte = kSB
           THEN [s |-> [s EXCEPT !.iac_phase = "kSub", !.iac_prev = 0], c |-> 0]
         ELSE [s |-> [s EXCEPT !.iac_phase = "kNormal"], c |-> 0]
    [] s.iac_phase = "kNego" ->
         [s |-> [s EXCEPT !.iac_phase = "kNormal"], c |-> 0]
    [] s.iac_phase = "kSub" ->
         [s |-> [s EXCEPT !.iac_phase = IF s.iac_prev = kIAC /\ byte = kSE
                                        THEN "kNormal" ELSE @,
                          !.iac_prev = byte],
          c |-> 0]

ShowPrompt(s) ==
  CASE s.auth = "kNeedUser" -> SendStr(s, StrUsernamePrompt)
    [] s.auth = "kNeedPass" -> SendStr(s, StrPasswordPrompt)
    [] s.auth = "kAuthorized" -> SendStr(s, s.prompt)

\* PushHistory without the comparison with the most recent entry
PushHistory_NoDupSkip(s, cmd) ==
  IF cmd = NullStr \/ Len(cmd) = 0 THEN s
  ELSE [s EXCEPT !.history[s.history_write] = Take(cmd, kMaxCmdLen - 1),
                 !.history_write = (s.history_write + 1) % kHistorySize,
                 !.history_count = IF @ < kHistorySize THEN @ + 1 ELSE @]

\* PushHistory counting every stored line, beyond the size of the ring
PushHistory_CountAll(s, cmd) ==
  IF cmd = NullStr \/ Len(cmd) = 0 THEN s
  ELSE IF s.history_count > 0
          /\ s.history[(s.history_write + kHistorySize - 1) % kHistorySize] = cmd
    THEN s
  ELSE [s EXCEPT !.history[s.history_write] = Take(cmd, kMaxCmdLen - 1),
                 !.history_write = (s.history_write + 1) % kHistorySize,
                 !.history_count = @ + 1]

PushHistory(s, cmd) ==
  IF cmd = NullStr \/ Len(cmd) = 0 THEN s
  ELSE IF s.history_count > 0
          /\ s.history[(s.history_write + kHistorySize - 1) % kHistorySize] = cmd
    THEN s
  ELSE [s EXCEPT !.history[s.history_write] = Take(cmd, kMaxCmdLen - 1),
                 !.history_write = (s.history_write + 1) % kHistorySize,
                 !.history_count = IF @ < kHistorySize THEN @ + 1 ELSE @]

GetHistory(s, index) ==
  IF index < 0 \/ index >= s.history_count THEN NullStr
  ELSE s.history[(s.history_write + kHistorySize - 1 - index) % kHistorySize]

ReplaceLineWith(s, text) ==
  LET erased == [Send(s, Repeat(StrEraseSeq, Len(s.cmd_buf))) EXCEPT !.cmd_buf = <<>>]
  IN IF text = NullStr THEN erased
     ELSE LET line == Take(text, kMaxCmdLen - 1)
          IN Send([erased EXCEPT !.cmd_buf = line], line)

\* HandleArrow whose Up branch does not compare with history_count_
HandleArrow_UpUnbounded(s, c) ==
  IF s.arrow = "kEsc"
    THEN [s EXCEPT !.arrow = IF c = ChLBracket THEN "kBracket" ELSE "kNone"]
  ELSE LET s1 == [s EXCEPT !.arrow = "kNone"]
       IN IF c = ChUp
            THEN ReplaceLineWith([s1 EXCEPT !.history_nav = @ + 1],
                                 GetHistory(s1, s1.history_nav + 1))
          ELSE IF c = ChDown
            THEN IF s1.history_nav > 0
                   THEN ReplaceLineWith([s1 EXCEPT !.history_nav = @ - 1],
                                        GetHistory(s1, s1.history_nav - 1))
                 ELSE IF s1.history_nav = 0
                   THEN ReplaceLineWith([s1 EXCEPT !.history_nav = -1], <<>>)
                 ELSE s1
          ELSE s1

\* HandleArrow whose Down at cursor 0 ends the navigation but keeps the line
HandleArrow_DownKeepsLine(s, c) ==
  IF s.arrow = "kEsc"
    THEN [s EXCEPT !.arrow = IF c = ChLBracket THEN "kBracket" ELSE "kNone"]
  ELSE LET s1 == [s EXCEPT !.arrow = "kNone"]
       IN IF c = ChUp
            THEN IF s1.history_nav + 1 < s1.history_count
                   THEN ReplaceLineWith([s1 EXCEPT !.history_nav = @ + 1],
                                        GetHistory(s1, s1.history_nav + 1))
                   ELSE s1
          ELSE IF c = ChDown
            THEN IF s1.history_nav > 0
                   THEN ReplaceLineWith([s1 EXCEPT !.history_nav = @ - 1],
                                        GetHistory(s1, s1.history_nav - 1))
                 ELSE IF s1.history_nav = 0
                   THEN [s1 EXCEPT !.history_nav = -1]
                 ELSE s1
          ELSE s1

\* the tail of an escape sequence: '[' after ESC, then the letter of the arrow
HandleArrow(s, c) ==
  IF s.arrow = "kEsc"
    THEN [s EXCEPT !.arrow = IF c = ChLBracket THEN "kBracket" ELSE "kNone"]
  ELSE LET s1 == [s EXCEPT !.arrow = "kNone"]
       IN IF c = ChUp
            THEN IF s1.history_nav + 1 < s1.history_count
                   THEN ReplaceLineWith([s1 EXCEPT !.history_nav = @ + 1],
                                        GetHistory(s1, s1.history_nav + 1))
                   ELSE s1
          ELSE IF c = ChDown
            THEN IF s1.history_nav > 0
                   THEN ReplaceLineWith([s1 EXCEPT !.history_nav = @ - 1],
                                        GetHistory(s1, s1.history_nav - 1))
                 ELSE IF s1.history_nav = 0
                   THEN ReplaceLineWith([s1 EXCEPT !.history_nav = -1], <<>>)
                 ELSE s1
          ELSE s1

\* CheckAuth asking for the password again after a failure
CheckAuth_RetryPass(s) ==
  IF s.auth = "kNeedUser"
    THEN [s EXCEPT !.user_buf = Take(s.cmd_buf, kUserBufSize - 1), !.auth = "kNeedPass"]
  ELSE IF s.auth = "kNeedPass"
    THEN IF s.user_buf = s.username /\ s.cmd_buf = s.password
           THEN SendStr([s EXCEPT !.auth = "kAuthorized"], StrLoginOK)
           ELSE SendStr(s, StrLoginFailed)
  ELSE s

CheckAuth(s) ==
  IF s.auth = "kNeedUser"
    THEN [s EXCEPT !.user_buf = Take(s.cmd_buf, kUserBufSize - 1), !.auth = "kNeedPass"]
  ELSE IF s.auth = "kNeedPass"
    THEN IF s.user_buf = s.username /\ s.cmd_buf = s.password
           THEN SendStr([s EXCEPT !.auth = "kAuthorized"], StrLoginOK)
           ELSE [SendStr(s, StrLoginFailed) EXCEPT !.auth = "kNeedUser", !.user_buf = <<>>]
  ELSE s

-----------------------------------------------------------------------------
(* ShellSplit and CommandRegistry                                          *)

ChSpace == 32
ChTab == 9
ChSQuote == 39
ChDQuote == 34
\* CommandRegistry::kMaxArgs (32 in the source)
kMaxArgs == 2
\* PrintHelp's "%-16s" column
kHelpNameWidth == 16
\* the size of the snprintf buffers of Execute and PrintHelp (128 in the source)
kFmtBufSize == 32

StrUnknownPrefix == <<85, 110, 107, 110, 111, 119, 110, 32, 99, 111, 109, 109, 97, 110, 100, 58, 32>>
StrHelpHdr == <<65, 118, 97, 105, 108, 97, 98, 108, 101, 32, 99, 111, 109, 109, 97, 110, 100, 115, 58, 13, 10>>
StrHelpSep == <<32, 45, 32>>

VARIABLES
  entries_,     \* CommandRegistry::entries_, index 0..kMaxCommands-1
  count_,       \* CommandRegistry::count_
  mutex_        \* CommandRegistry::mutex_: 0 when free, else the thread holding it

\* a CmdEntry; fn names the handler, which returns the status fn
CmdEntry(name, desc, fn, ctx) == [name |-> name, desc |-> desc, fn |-> fn, ctx |-> ctx]
NoEntry == CmdEntry(NullStr, NullStr, 0, 0)

\* the scan of ShellSplit from the current position p; argv holds the tokens so far,
\* the last one still growing while in_arg.  argc = -1 is the overflow return.
RECURSIVE SplitFrom(_, _, _, _, _, _)
SplitFrom(rest, in_sq, in_dq, in_arg, argv, max_args) ==
  IF rest = <<>> THEN [argc |-> Len(argv), argv |-> argv]
  ELSE LET ch == Head(rest)
           is_ws == ch \in {ChSpace, ChTab, ChCR, ChLF}
           grown == [argv EXCEPT ![Len(argv)] = Append(@, ch)]
       IN IF is_ws /\ ~in_sq /\ ~in_dq
            THEN SplitFrom(Tail(rest), in_sq, in_dq, FALSE, argv, max_args)
          ELSE IF ch = ChSQuote /\ ~in_dq
            THEN IF ~in_arg
                   THEN IF Len(argv) >= max_args THEN [argc |-> -1, argv |-> argv]
                        ELSE SplitFrom(Tail(rest), ~in_sq, in_dq, TRUE,
                                       Append(argv, <<>>), max_args)
                   ELSE SplitFrom(Tail(rest), ~in_sq, in_dq, TRUE, argv, max_args)
          ELSE IF ch = ChDQuote /\ ~in_sq
            THEN IF ~in_arg
                   THEN IF Len(argv) >= max_args THEN [argc |-> -1, argv |-> argv]
                        ELSE SplitFrom(Tail(rest), in_sq, ~in_dq, TRUE,
                                       Append(argv, <<>>), max_args)
                   ELSE SplitFrom(Tail(rest), in_sq, ~in_dq, TRUE, argv, max_args)
          ELSE IF ~in_arg
            THEN IF Len(argv) >= max_args THEN [argc |-> -1, argv |-> argv]
                 ELSE SplitFrom(Tail(rest), in_sq, in_dq, TRUE,
                                Append(argv, <<ch>>), max_args)
          ELSE SplitFrom(Tail(rest), in_sq, in_dq, TRUE, grown, max_args)

\* ShellSplit that gives no argument for an empty pair of quotes
ShellSplit_DropEmpty(cmdline, max_args) ==
  LET r == SplitFrom(cmdline, FALSE, FALSE, FALSE, <<>>, max_args)
      kept == SelectSeq(r.argv, LAMBDA a : a # <<>>)
  IN IF cmdline = NullStr THEN [argc |-> -1, argv |-> <<>>]
     ELSE IF r.argc < 0 THEN r
     ELSE [argc |-> Len(kept), argv |-> kept]

\* ShellSplit that stops at max_args arguments and returns those
ShellSplit_Truncating(cmdline, max_args) ==
  LET r == SplitFrom(cmdline, FALSE, FALSE, FALSE, <<>>, max_args)
  IN IF cmdline = NullStr THEN [argc |-> -1, argv |-> <<>>]
     ELSE [argc |-> Len(r.argv), argv |-> r.argv]

ShellSplit(cmdline, max_args) ==
  IF cmdline = NullStr THEN [argc |-> -1, argv |-> <<>>]
  ELSE SplitFrom(cmdline, FALSE, FALSE, FALSE, <<>>, max_args)

\* index of the first entry named name among the first count_ entries, or -1
RECURSIVE FindIndexFrom(_, _)
FindIndexFrom(i, name) ==
  IF i >= count_ THEN -1
  ELSE IF entries_[i].name = name THEN i
  ELSE FindIndexFrom(i + 1, name)

FindIndex(name) == FindIndexFrom(0, name)

VARIABLES
  pastBuf       \* the byte value found in the memory that follows a 128-byte buf

\* snprintf(buf, sizeof(buf), ...) followed by output_fn(buf, n): n is the length of the
\* whole text.  A text of 128 bytes or more leaves 127 of them and a NUL in buf, and the
\* n bytes handed on run past the end of buf.
Formatted(text) ==
  IF Len(text) < kFmtBufSize THEN text
  ELSE Take(text, kFmtBufSize - 1) \o <<0>> \o Repeat(<<pastBuf>>, Len(text) - kFmtBufSize)

\* snprintf(buf, 128, "Unknown command: %s\r\n", argv[0])
UnknownMsg(name) == Formatted(StrUnknownPrefix \o name \o StrCRLF)

\* snprintf(buf, 128, "  %-16s - %s\r\n", name, desc ? desc : "")
HelpLine(e) ==
  Formatted(<<ChSpace, ChSpace>> \o e.name
              \o Repeat(<<ChSpace>>, kHelpNameWidth - Len(e.name))
              \o StrHelpSep \o (IF e.desc = NullStr THEN <<>> ELSE e.desc) \o StrCRLF)

RECURSIVE HelpLinesFrom(_)
HelpLinesFrom(i) == IF i >= count_ THEN <<>> ELSE <<HelpLine(entries_[i])>> \o HelpLinesFrom(i + 1)

\* PrintHelp: the sequence of output_fn calls
PrintHelp == <<StrHelpHdr>> \o HelpLinesFrom(0)

\* Execute that hands the line to the first entry, whatever its name
Execute_FirstEntry(cmdline) ==
  LET sp == ShellSplit(cmdline, kMaxArgs)
  IN IF cmdline = NullStr THEN [ret |-> -2, output |-> <<>>, calls |-> <<>>]
     ELSE IF sp.argc < 0 THEN [ret |-> -2, output |-> <<>>, calls |-> <<>>]
     ELSE IF sp.argc = 0 THEN [ret |-> 0, output |-> <<>>, calls |-> <<>>]
     ELSE IF sp.argv[1] = StrHelp THEN [ret |-> 0, output |-> PrintHelp, calls |-> <<>>]
     ELSE IF count_ > 0
       THEN [ret |-> entries_[0].fn, output |-> <<>>,
             calls |-> <<[entry |-> 0, argc |-> sp.argc, argv |-> sp.argv,
                          ctx |-> entries_[0].ctx]>>]
     ELSE [ret |-> -1, output |-> <<UnknownMsg(sp.argv[1])>>, calls |-> <<>>]

\* Execute without the argc == 0 return: an empty line is looked up like a name
Execute_NoEmptyCheck(cmdline) ==
  LET sp == ShellSplit(cmdline, kMaxArgs)
      name == IF sp.argc > 0 THEN sp.argv[1] ELSE <<>>
      hit == FindIndex(name)
  IN IF cmdline = NullStr THEN [ret |-> -2, output |-> <<>>, calls |-> <<>>]
     ELSE IF sp.argc < 0 THEN [ret |-> -2, output |-> <<>>, calls |-> <<>>]
     ELSE IF name = StrHelp THEN [ret |-> 0, output |-> PrintHelp, calls |-> <<>>]
     ELSE IF hit >= 0
       THEN [ret |-> entries_[hit].fn, output |-> <<>>,
             calls |-> <<[entry |-> hit, argc |-> sp.argc, argv |-> sp.argv,
                          ctx |-> entries_[hit].ctx]>>]
     ELSE [ret |-> -1, output |-> <<UnknownMsg(name)>>, calls |-> <<>>]

\* Execute, run to completion: the status returned, the output_fn calls made and the
\* handler calls made (entry index, argc, argv, ctx)
Execute(cmdline) ==
  LET sp == ShellSplit(cmdline, kMaxArgs)
      hit == FindIndex(sp.argv[1])
  IN IF cmdline = NullStr THEN [ret |-> -2, output |-> <<>>, calls |-> <<>>]
     ELSE IF sp.argc < 0 THEN [ret |-> -2, output |-> <<>>, calls |-> <<>>]
     ELSE IF sp.argc = 0 THEN [ret |-> 0, output |-> <<>>, calls |-> <<>>]
     ELSE IF sp.argv[1] = StrHelp THEN [ret |-> 0, output |-> PrintHelp, calls |-> <<>>]
     ELSE IF hit >= 0
       THEN [ret |-> entries_[hit].fn, output |-> <<>>,
             calls |-> <<[entry |-> hit, argc |-> sp.argc, argv |-> sp.argv,
                          ctx |-> entries_[hit].ctx]>>]
     ELSE [ret |-> -1, output |-> <<UnknownMsg(sp.argv[1])>>, calls |-> <<>>]

\* Register that skips the scan for an entry of the same name
Register_NoDupCheck(name, desc, fn, ctx) ==
  IF name = NullStr \/ fn = 0 THEN [ok |-> FALSE, entries |-> entries_, count |-> count_]
  ELSE IF count_ >= kMaxCommands THEN [ok |-> FALSE, entries |-> entries_, count |-> count_]
  ELSE [ok |-> TRUE,
        entries |-> [entries_ EXCEPT ![count_] = CmdEntry(name, desc, fn, ctx)],
        count |-> count_ + 1]

\* Register, run to completion: the value returned and the table it leaves
Register(name, desc, fn, ctx) ==
  IF name = NullStr \/ fn = 0 THEN [ok |-> FALSE, entries |-> entries_, count |-> count_]
  ELSE IF count_ >= kMaxCommands THEN [ok |-> FALSE, entries |-> entries_, count |-> count_]
  ELSE IF FindIndex(name) >= 0 THEN [ok |-> FALSE, entries |-> entries_, count |-> count_]
  ELSE [ok |-> TRUE,
        entries |-> [entries_ EXCEPT ![count_] = CmdEntry(name, desc, fn, ctx)],
        count |-> count_ + 1]

-----------------------------------------------------------------------------
(* TelnetSession: line editor and the Run loop                             *)

RECURSIVE SendAll(_, _)
SendAll(s, chunks) ==
  IF chunks = <<>> THEN s ELSE SendAll(Send(s, Head(chunks)), Tail(chunks))

\* ExecuteCommand without the comparison with the reserved words
ExecuteCommand_NoReserved(s) ==
  LET s1 == PushHistory(s, s.cmd_buf)
      exec_buf == Take(s.cmd_buf, kMaxCmdLen - 1)
  IN SendAll([s1 EXCEPT !.exec = Append(@, exec_buf)], Execute(exec_buf).output)

\* ExecuteCommand: history, then exit/quit (farewell and Stop) or the registry
ExecuteCommand(s) ==
  LET s1 == PushHistory(s, s.cmd_buf)
      exec_buf == Take(s.cmd_buf, kMaxCmdLen - 1)
  IN IF s.cmd_buf = StrExit \/ s.cmd_buf = StrQuit
       THEN Stop_Session(SendStr(s1, StrBye))
       ELSE SendAll([s1 EXCEPT !.exec = Append(@, exec_buf)], Execute(exec_buf).output)

\* OnEnter with the else before the dispatch lost: the login line is also executed
OnEnter_NoAuthGate(s) ==
  LET s1 == Send(s, StrCRLF)
      s2 == IF s1.auth # "kAuthorized" THEN CheckAuth(s1) ELSE s1
      s3 == IF Len(s2.cmd_buf) > 0 THEN ExecuteCommand(s2) ELSE s2
  IN ShowPrompt([s3 EXCEPT !.cmd_buf = <<>>, !.history_nav = -1])

\* OnEnter that shows the prompt of the state the line was typed in
OnEnter_PromptFirst(s) ==
  LET s1 == ShowPrompt(Send(s, StrCRLF))
      s2 == IF s1.auth # "kAuthorized" THEN CheckAuth(s1)
            ELSE IF Len(s1.cmd_buf) > 0 THEN ExecuteCommand(s1)
            ELSE s1
  IN [s2 EXCEPT !.cmd_buf = <<>>, !.history_nav = -1]

\* ProcessChar, the Enter branch
\* Enter storing the line in the history at the login prompts too
OnEnter_HistoryAtLogin(s) ==
  LET s1 == Send(s, StrCRLF)
      s2 == IF s1.auth # "kAuthorized" THEN CheckAuth(PushHistory(s1, s1.cmd_buf))
            ELSE IF Len(s1.cmd_buf) > 0 THEN ExecuteCommand(s1)
            ELSE s1
  IN ShowPrompt([s2 EXCEPT !.cmd_buf = <<>>, !.history_nav = -1])

OnEnter(s) ==
  LET s1 == Send(s, StrCRLF)
      s2 == IF s1.auth # "kAuthorized" THEN CheckAuth(s1)
            ELSE IF Len(s1.cmd_buf) > 0 THEN ExecuteCommand(s1)
            ELSE s1
  IN ShowPrompt([s2 EXCEPT !.cmd_buf = <<>>, !.history_nav = -1])

\* ProcessChar, the Backspace / DEL branch
OnBackspace(s) ==
  IF Len(s.cmd_buf) > 0
    THEN LET s1 == [s EXCEPT !.cmd_buf = SubSeq(@, 1, Len(@) - 1)]
         IN IF s1.auth # "kNeedPass" THEN Send(s1, StrEraseSeq) ELSE s1
    ELSE s

\* OnPrintable without the password mask
OnPrintable_NoMask(s, c) ==
  IF Len(s.cmd_buf) < kMaxCmdLen - 1
    THEN Send([s EXCEPT !.cmd_buf = Append(@, c)], <<c>>)
    ELSE s

\* OnPrintable without the capacity check
OnPrintable_NoLimit(s, c) ==
  LET s1 == [s EXCEPT !.cmd_buf = Append(@, c)]
  IN IF s1.auth = "kNeedPass" THEN Send(s1, StrStar) ELSE Send(s1, <<c>>)

\* ProcessChar, the printable-character branch
OnPrintable(s, c) ==
  IF Len(s.cmd_buf) < kMaxCmdLen - 1
    THEN LET s1 == [s EXCEPT !.cmd_buf = Append(@, c)]
         IN IF s1.auth = "kNeedPass" THEN Send(s1, StrStar) ELSE Send(s1, <<c>>)
    ELSE s

\* ProcessChar taking LF for the end of a line as it does CR
ProcessChar_LfCompletes(s, c) ==
  IF s.arrow # "kNone" THEN HandleArrow(s, c)
  ELSE IF c = ChESC THEN [s EXCEPT !.arrow = "kEsc"]
  ELSE IF c = ChXOFF THEN [s EXCEPT !.output_paused = TRUE]
  ELSE IF c = ChXON THEN [s EXCEPT !.output_paused = FALSE]
  ELSE IF c = ChBS \/ c = ChDEL THEN OnBackspace(s)
  ELSE IF c = ChCR \/ c = ChLF THEN OnEnter(s)
  ELSE OnPrintable(s, c)

\* ProcessChar letting Enter through while an escape sequence is in progress
ProcessChar_EnterInEscape(s, c) ==
  IF s.arrow # "kNone" /\ c # ChCR THEN HandleArrow(s, c)
  ELSE IF c = ChESC THEN [s EXCEPT !.arrow = "kEsc"]
  ELSE IF c = ChXOFF THEN [s EXCEPT !.output_paused = TRUE]
  ELSE IF c = ChXON THEN [s EXCEPT !.output_paused = FALSE]
  ELSE IF c = ChBS \/ c = ChDEL THEN OnBackspace(s)
  ELSE IF c = ChCR THEN OnEnter(s)
  ELSE IF c = ChLF THEN s
  ELSE OnPrintable(s, c)

ProcessChar(s, c) ==
  IF s.arrow # "kNone" THEN HandleArrow(s, c)
  ELSE IF c = ChESC THEN [s EXCEPT !.arrow = "kEsc"]
  ELSE IF c = ChXOFF THEN [s EXCEPT !.output_paused = TRUE]
  ELSE IF c = ChXON THEN [s EXCEPT !.output_paused = FALSE]
  ELSE IF c = ChBS \/ c = ChDEL THEN OnBackspace(s)
  ELSE IF c = ChCR THEN OnEnter(s)
  ELSE IF c = ChLF THEN s
  ELSE OnPrintable(s, c)

\* what the last step sent and executed is forgotten when the next step begins
Fresh(s) == [s EXCEPT !.emit = <<>>, !.out = <<>>, !.exec = <<>>]

\* Run, up to the read loop: negotiation, banner, first prompt
RunStart(s) ==
  LET s1 == SendIac(Fresh(s), kDO, kOptSGA)
      s2 == SendIac(s1, kDO, kOptNAWS)
      s3 == SendIac(s2, kWILL, kOptEcho)
      s4 == SendIac(s3, kWILL, kOptSGA)
      s5 == IF s4.banner # NullStr THEN SendStr(s4, s4.banner) ELSE s4
  IN ShowPrompt(s5)

\* Run, one pass of the loop body after recv returned byte
RunByte(s, byte) ==
  LET f == FilterIac(Fresh(s), byte)
  IN IF f.c = 0 THEN f.s ELSE ProcessChar(f.s, f.c)

-----------------------------------------------------------------------------
(* One session run by one thread against one client, as the tests'         *)
(* SessionFixture sets it up (socketpair, Init, std::thread(Run)).         *)

VARIABLES
  sess,         \* the TelnetSession
  thr,          \* where the session thread is in Run: start, loop, recv, close, done
  rx,           \* bytes the client has sent that recv has not yet returned
  peer,         \* "open", or "closed" once the client has closed its end
  userLine,     \* the line completed at the username prompt of the current attempt
  sess2, rx2    \* a second session and its input, for comparing two runs

sessVars == <<sess, thr, rx, peer, userLine>>
runVars == <<sess2, rx2>>
regVars == <<entries_, count_, mutex_>>

VARIABLES
  rt            \* threads calling into the CommandRegistry: what each is doing

VARIABLES
  running_,       \* TelnetServer::running_
  listen_fd_,     \* TelnetServer::listen_fd_
  listening,      \* the kernel's listening socket is open
  accept_thread_, \* TelnetServer::accept_thread_: "none", "running" or "exited" (joinable)
  max_sessions,   \* ServerConfig::max_sessions
  config_,        \* ServerConfig::username and password (NullStr: not set)
  slots_,         \* TelnetServer::slots_
  acc,            \* the accept thread: position in AcceptLoop and its locals
  main            \* the thread that calls Start and Stop: position and loop index

srvVars == <<running_, listen_fd_, listening, accept_thread_, max_sessions, config_, slots_,
            acc, main>>

VARIABLES
  iacLog,         \* the FilterIac calls Run has made, in order, with what each returned
  lastCall,       \* the last call a single caller made into the registry or ShellSplit
  bc              \* the thread that calls Broadcast: position, locals, and the sends made

auxVars == <<iacLog, lastCall, pastBuf, bc>>
vars == <<sess, thr, rx, peer, userLine, sess2, rx2, entries_, count_, mutex_, rt,
          running_, listen_fd_, listening, accept_thread_, max_sessions, config_, slots_, acc,
          main, iacLog, lastCall, pastBuf, bc>>

\* no call made yet
NoCall == [op |-> "none"]

\* no Broadcast called yet
NoBc == [pc |-> "idle", i |-> 0, fd |-> -1, calls |-> 0, sends |-> <<>>]

NoAux == iacLog = <<>> /\ lastCall = NoCall /\ pastBuf = 0 /\ bc = NoBc

\* a slot as TelnetServer() leaves it; pc, rx and peer describe the slot's session
\* thread and its connection
NewSlot ==
  [session |-> NewSession, thread |-> "none", active |-> FALSE,
   pc |-> "none", rx |-> <<>>, peer |-> "none"]

NewAcc == [pc |-> "none", fd |-> -1, slot |-> -1, i |-> 0, hadFree |-> FALSE,
           sent |-> <<>>, closed |-> FALSE]

\* the server as TelnetServer(registry, config) leaves it
ServerStoppedWith(n, login) ==
  /\ running_ = FALSE
  /\ listen_fd_ = -1
  /\ listening = FALSE
  /\ accept_thread_ = "none"
  /\ max_sessions = n
  /\ config_ = login
  /\ slots_ = [i \in 0..(kMaxSessions - 1) |-> NewSlot]
  /\ acc = NewAcc
  /\ main = [pc |-> "idle", i |-> 0, last |-> "none"]

\* configured without a login
ServerStopped(n) == ServerStoppedWith(n, [username |-> NullStr, password |-> NullStr])

NoRegThreads == rt = <<>>

\* a registry holding the given entries, nobody in it
RegistryOf(es) ==
  /\ entries_ = [i \in 0..(kMaxCommands - 1) |-> IF i < Len(es) THEN es[i + 1] ELSE NoEntry]
  /\ count_ = Len(es)
  /\ mutex_ = 0

\* the command "a", described as "b", whose handler returns 1
CmdA == CmdEntry(<<ChA>>, <<ChB>>, 1, 0)

\* a username that fills user_buf_ exactly
FullUser == Repeat(<<ChA>>, kUserBufSize - 1)

AuthConfigs ==
  { SessionConfig(<<ChA>>, <<ChB>>, StrPrompt, NullStr),
    SessionConfig(FullUser, <<ChB>>, StrPrompt, NullStr),
    SessionConfig(<<ChA>>, <<ChA, ChB>>, StrPrompt, NullStr),
    SessionConfig(<<ChA>>, NullStr, StrPrompt, NullStr),
    SessionConfig(NullStr, NullStr, StrPrompt, NullStr) }

InitSession(configs) ==
  /\ \E cfg \in configs : sess = Init_Session(NewSession, 3, cfg)
  /\ thr = "start"
  /\ rx = <<>>
  /\ peer = "open"
  /\ userLine = <<>>
  /\ sess2 = NewSession /\ rx2 = <<>>
  /\ RegistryOf(<<CmdA>>)
  /\ NoRegThreads
  /\ ServerStopped(1)
  /\ NoAux

\* the byte in hand reaches ProcessChar's Enter branch
AtEnter == /\ thr = "recv" /\ rx # <<>> /\ Head(rx) = ChCR
           /\ sess.iac_phase = "kNormal" /\ sess.arrow = "kNone"

SessStart ==
  /\ thr = "start"
  /\ IF sess.sock_fd < 0 THEN thr' = "done" /\ sess' = sess
     ELSE thr' = "loop" /\ sess' = RunStart(sess)
  /\ UNCHANGED <<rx, peer, userLine, regVars, runVars, rt, srvVars, auxVars>>

SessLoop ==
  /\ thr = "loop"
  /\ thr' = IF sess.running THEN "recv" ELSE "close"
  /\ UNCHANGED <<sess, rx, peer, userLine, regVars, runVars, rt, srvVars, auxVars>>

\* recv returned one byte
SessRecv ==
  /\ thr = "recv" /\ rx # <<>>
  /\ sess' = RunByte(sess, Head(rx))
  /\ rx' = Tail(rx)
  /\ thr' = "loop"
  /\ userLine' = IF AtEnter /\ sess.auth = "kNeedUser" THEN sess.cmd_buf
                 ELSE IF AtEnter THEN <<>> ELSE userLine
  /\ UNCHANGED <<peer, regVars, runVars, rt, srvVars, auxVars>>

\* recv returned 0 or an error: the peer closed, or the socket was shut down
SessRecvEnd ==
  /\ thr = "recv"
  /\ (peer = "closed" /\ rx = <<>>) \/ sess.shut
  /\ thr' = "close"
  /\ UNCHANGED <<sess, rx, peer, userLine, regVars, runVars, rt, srvVars, auxVars>>

SessClose ==
  /\ thr = "close"
  /\ sess' = Close(Fresh(sess))
  /\ thr' = "done"
  /\ UNCHANGED <<rx, peer, userLine, regVars, runVars, rt, srvVars, auxVars>>

ClientSend(frags) ==
  /\ peer = "open" /\ rx = <<>> /\ thr \in {"loop", "recv"}
  /\ \E f \in frags : rx' = f
  /\ UNCHANGED <<sess, thr, peer, userLine, regVars, runVars, rt, srvVars, auxVars>>

ClientClose ==
  /\ peer = "open" /\ thr \in {"loop", "recv"}
  /\ peer' = "closed"
  /\ UNCHANGED <<sess, thr, rx, userLine, regVars, runVars, rt, srvVars, auxVars>>

SessionThread == SessStart \/ SessLoop \/ SessRecv \/ SessRecvEnd \/ SessClose

\* what the client types in SpecAuth: anything at the login prompts, one letter after
AuthFrags ==
  IF sess.auth = "kAuthorized"
    THEN {<<ChA>>, <<ChCR>>}
    ELSE {<<ChA>>, <<ChB>>, <<ChCR>>, <<ChLF>>, <<ChBS>>, <<ChXOFF>>, <<ChXON>>,
          <<ChESC, ChLBracket, ChUp>>, <<kIAC, kWILL, kOptSGA>>}

InitAuth == InitSession(AuthConfigs)
NextAuth == SessionThread \/ ClientSend(AuthFrags) \/ ClientClose
SpecAuth == InitAuth /\ [][NextAuth]_vars

-----------------------------------------------------------------------------
(* Two runs of the same session side by side (SpecEcho): the same          *)
(* configuration and the same input, except that a character typed at the  *)
(* password prompt may differ between the runs.                            *)

ChX == 120
ChY == 121
ChZ == 122

\* characters the client types at the password prompt, and nowhere else
PassChars == {ChY, ChZ}

EchoConfigs ==
  { SessionConfig(<<ChX>>, <<ChY>>, StrPrompt, NullStr),
    SessionConfig(<<ChX>>, <<ChY, ChZ>>, StrPrompt, NullStr) }

\* the pairs of fragments the two clients may send next
EchoPairs ==
  IF sess.auth = "kNeedPass"
    THEN {<<f, f>> : f \in {<<ChCR>>, <<ChLF>>, <<ChBS>>, <<ChDEL>>, <<ChXOFF>>, <<ChXON>>,
                            <<ChESC, ChLBracket, ChUp>>, <<ChESC, ChLBracket, ChDown>>,
                            <<kIAC, kDO, kOptEcho>>}}
         \cup {<<(<<c1>>), (<<c2>>)>> : c1 \in PassChars, c2 \in PassChars}
    ELSE {<<f, f>> : f \in {<<ChX>>, <<ChCR>>, <<ChBS>>, <<ChXOFF>>, <<ChXON>>,
                            <<ChESC, ChLBracket, ChUp>>}}

InitEcho ==
  /\ \E cfg \in EchoConfigs :
       /\ sess = Init_Session(NewSession, 3, cfg)
       /\ sess2 = Init_Session(NewSession, 4, cfg)
  /\ thr = "start"
  /\ rx = <<>> /\ rx2 = <<>>
  /\ peer = "open"
  /\ userLine = <<>>
  /\ RegistryOf(<<CmdA>>)
  /\ NoRegThreads
  /\ ServerStopped(1)
  /\ NoAux

EchoStart ==
  /\ thr = "start"
  /\ sess' = RunStart(sess) /\ sess2' = RunStart(sess2)
  /\ thr' = "recv"
  /\ UNCHANGED <<rx, rx2, peer, userLine, regVars, rt, srvVars, auxVars>>

EchoSend ==
  /\ thr = "recv" /\ rx = <<>> /\ rx2 = <<>>
  /\ sess.running /\ sess2.running
  \* the comparison ends when one password was right and the other wrong
  /\ sess.auth = sess2.auth
  /\ \E p \in EchoPairs : rx' = p[1] /\ rx2' = p[2]
  /\ UNCHANGED <<sess, sess2, thr, peer, userLine, regVars, rt, srvVars, auxVars>>

\* both session threads take their next byte
EchoRecv ==
  /\ thr = "recv" /\ rx # <<>> /\ rx2 # <<>>
  /\ sess' = RunByte(sess, Head(rx)) /\ rx' = Tail(rx)
  /\ sess2' = RunByte(sess2, Head(rx2)) /\ rx2' = Tail(rx2)
  /\ UNCHANGED <<thr, peer, userLine, regVars, rt, srvVars, auxVars>>

NextEcho == EchoStart \/ EchoSend \/ EchoRecv
SpecEcho == InitEcho /\ [][NextEcho]_vars

-----------------------------------------------------------------------------
(* Threads calling into one CommandRegistry (SpecRegistry).  Each member   *)
(* function is split where another thread can interleave: before the lock  *)
(* is taken, and between the steps made while it is held.                  *)

RegThreads == {1, 2}

\* names and lines the threads use
RegNames == {<<ChA>>, <<ChB>>, StrHelp}
RegLines == {<<ChA>>, <<ChB>>, StrHelp, <<>>, <<ChA, ChSpace, ChB>>,
             <<ChA, ChSpace, ChB, ChSpace, ChA, ChSpace, ChB>>}

IdleThread ==
  [pc |-> "idle", name |-> NullStr, fn |-> 0, line |-> <<>>, argv |-> <<>>,
   hit |-> -1, ok |-> FALSE, ret |-> 0, out |-> <<>>, op |-> "none"]

\* std::lock_guard<std::mutex> lock(mutex_) with the mutex never taken
CanLock_NoMutex(t) == TRUE

\* std::lock_guard<std::mutex> lock(mutex_): the constructor returns once the mutex is free
CanLock(t) == mutex_ = 0

\* ~lock_guard
Unlocked(t) == IF mutex_ = t THEN 0 ELSE mutex_

InitRegistry ==
  /\ RegistryOf(<<>>)
  /\ rt = [t \in RegThreads |-> IdleThread]
  /\ sess = NewSession /\ thr = "none" /\ rx = <<>> /\ peer = "none" /\ userLine = <<>>
  /\ sess2 = NewSession /\ rx2 = <<>>
  /\ ServerStopped(1)
  /\ NoAux

\* Register: the null checks made before the lock
RegisterCall(t) ==
  /\ rt[t].pc = "idle"
  /\ \E name \in RegNames \cup {NullStr}, fn \in {0, 1, 2} :
       rt' = [rt EXCEPT ![t] =
                IF name = NullStr \/ fn = 0
                  THEN [IdleThread EXCEPT !.op = "Register", !.ok = FALSE]
                  ELSE [IdleThread EXCEPT !.op = "Register", !.pc = "reg_lock",
                                          !.name = name, !.fn = fn]]
  /\ UNCHANGED <<regVars, sessVars, runVars, srvVars, auxVars>>

RegisterLock(t) ==
  /\ rt[t].pc = "reg_lock" /\ CanLock(t)
  /\ mutex_' = t
  /\ rt' = [rt EXCEPT ![t].pc = "reg_check"]
  /\ UNCHANGED <<entries_, count_, sessVars, runVars, srvVars, auxVars>>

\* Register: the capacity check and the scan for a duplicate
RegisterCheck(t) ==
  /\ rt[t].pc = "reg_check"
  /\ IF count_ >= kMaxCommands \/ FindIndex(rt[t].name) >= 0
       THEN /\ rt' = [rt EXCEPT ![t].pc = "idle", ![t].ok = FALSE]
            /\ mutex_' = Unlocked(t)
       ELSE /\ rt' = [rt EXCEPT ![t].pc = "reg_store"]
            /\ UNCHANGED mutex_
  /\ UNCHANGED <<entries_, count_, sessVars, runVars, srvVars, auxVars>>

\* Register: entries_[count_] = {name, desc, fn, ctx}
RegisterStore(t) ==
  /\ rt[t].pc = "reg_store"
  /\ entries_' = IF count_ < kMaxCommands
                   THEN [entries_ EXCEPT ![count_] = CmdEntry(rt[t].name, <<ChB>>, rt[t].fn, t)]
                   ELSE entries_
  /\ rt' = [rt EXCEPT ![t].pc = "reg_inc"]
  /\ UNCHANGED <<count_, mutex_, sessVars, runVars, srvVars, auxVars>>

\* Register: ++count_; return true
RegisterInc(t) ==
  /\ rt[t].pc = "reg_inc"
  /\ count_' = IF count_ < kMaxCommands THEN count_ + 1 ELSE count_
  /\ rt' = [rt EXCEPT ![t].pc = "idle", ![t].ok = TRUE]
  /\ mutex_' = Unlocked(t)
  /\ UNCHANGED <<entries_, sessVars, runVars, srvVars, auxVars>>

\* FindByName and Count: take the lock, read, release
LookupCall(t) ==
  /\ rt[t].pc = "idle"
  /\ \/ \E name \in RegNames :
          rt' = [rt EXCEPT ![t] = [IdleThread EXCEPT !.op = "FindByName", !.pc = "read_lock",
                                                     !.name = name]]
     \/ rt' = [rt EXCEPT ![t] = [IdleThread EXCEPT !.op = "Count", !.pc = "read_lock"]]
  /\ UNCHANGED <<regVars, sessVars, runVars, srvVars, auxVars>>

LookupRead(t) ==
  /\ rt[t].pc = "read_lock" /\ CanLock(t)
  /\ rt' = [rt EXCEPT ![t].pc = "idle",
                      ![t].hit = IF rt[t].op = "FindByName" THEN FindIndex(rt[t].name) ELSE -1,
                      ![t].ret = IF rt[t].op = "Count" THEN count_ ELSE 0]
  /\ UNCHANGED <<regVars, sessVars, runVars, srvVars, auxVars>>

\* Execute: ShellSplit and the returns made before any lock is taken
ExecuteCall(t) ==
  /\ rt[t].pc = "idle"
  /\ \E line \in RegLines :
       LET sp == ShellSplit(line, kMaxArgs)
           call == [IdleThread EXCEPT !.op = "Execute", !.line = line, !.argv = sp.argv]
       IN rt' = [rt EXCEPT ![t] =
                   IF sp.argc < 0 THEN [call EXCEPT !.ret = -2]
                   ELSE IF sp.argc = 0 THEN [call EXCEPT !.ret = 0]
                   ELSE IF sp.argv[1] = StrHelp
                     THEN [call EXCEPT !.pc = "help_lock", !.out = <<StrHelpHdr>>]
                   ELSE [call EXCEPT !.pc = "ex_lock"]]
  /\ UNCHANGED <<regVars, sessVars, runVars, srvVars, auxVars>>

ExecuteLock(t) ==
  /\ rt[t].pc = "ex_lock" /\ CanLock(t)
  /\ mutex_' = t
  /\ rt' = [rt EXCEPT ![t].pc = "ex_lookup"]
  /\ UNCHANGED <<entries_, count_, sessVars, runVars, srvVars, auxVars>>

\* Execute releasing the lock after the lookup, before it calls the handler
ExecuteLookup_UnlockFirst(t) ==
  /\ rt[t].pc = "ex_lookup"
  /\ LET hit == FindIndex(rt[t].argv[1])
     IN IF hit >= 0
          THEN rt' = [rt EXCEPT ![t].pc = "ex_handler", ![t].hit = hit]
          ELSE rt' = [rt EXCEPT ![t].pc = "idle", ![t].ret = -1,
                                ![t].out = <<UnknownMsg(rt[t].argv[1])>>]
  /\ mutex_' = Unlocked(t)
  /\ UNCHANGED <<entries_, count_, sessVars, runVars, srvVars, auxVars>>

\* Execute: the lookup loop; a hit calls the handler with the lock still held
ExecuteLookup(t) ==
  /\ rt[t].pc = "ex_lookup"
  /\ LET hit == FindIndex(rt[t].argv[1])
     IN IF hit >= 0
          THEN /\ rt' = [rt EXCEPT ![t].pc = "ex_handler", ![t].hit = hit]
               /\ UNCHANGED mutex_
          ELSE /\ rt' = [rt EXCEPT ![t].pc = "idle", ![t].ret = -1,
                                   ![t].out = <<UnknownMsg(rt[t].argv[1])>>]
               /\ mutex_' = Unlocked(t)
  /\ UNCHANGED <<entries_, count_, sessVars, runVars, srvVars, auxVars>>

\* the handler returns, and Execute returns its status
HandlerReturn(t) ==
  /\ rt[t].pc = "ex_handler"
  /\ rt' = [rt EXCEPT ![t].pc = "idle", ![t].ret = entries_[rt[t].hit].fn]
  /\ mutex_' = Unlocked(t)
  /\ UNCHANGED <<entries_, count_, sessVars, runVars, srvVars, auxVars>>

\* PrintHelp: the header is out, the listing is made under the lock
HelpList(t) ==
  /\ rt[t].pc = "help_lock" /\ CanLock(t)
  /\ rt' = [rt EXCEPT ![t].pc = "idle", ![t].ret = 0, ![t].out = PrintHelp]
  /\ UNCHANGED <<regVars, sessVars, runVars, srvVars, auxVars>>

NextRegistry ==
  \E t \in RegThreads :
    \/ RegisterCall(t) \/ RegisterLock(t) \/ RegisterCheck(t)
    \/ RegisterStore(t) \/ RegisterInc(t)
    \/ LookupCall(t) \/ LookupRead(t)
    \/ ExecuteCall(t) \/ ExecuteLock(t) \/ ExecuteLookup(t) \/ HandlerReturn(t)
    \/ HelpList(t)

SpecRegistry == InitRegistry /\ [][NextRegistry]_vars

-----------------------------------------------------------------------------
(* TelnetServer (SpecServer): the thread calling Start and Stop, the       *)
(* accept thread, one session thread per active slot, and the clients.     *)

Slots == 0..(kMaxSessions - 1)

kListenFd == 5
kClientFd == 7

\* the SessionConfig AcceptLoop builds from config_ (default banner off)
ServerSessionConfig == SessionConfig(config_.username, config_.password, StrPrompt, NullStr)

\* what a client of the server sends, once per connection: exit
ServerFrags == {StrExit \o <<ChCR>>}

otherVars == <<sessVars, runVars, regVars, rt, auxVars>>

InitServer ==
  /\ \E n \in 1..MaxCfgSessions : ServerStopped(n)
  /\ NoAux
  /\ RegistryOf(<<CmdA>>)
  /\ NoRegThreads
  /\ sess = NewSession /\ thr = "none" /\ rx = <<>> /\ peer = "none" /\ userLine = <<>>
  /\ sess2 = NewSession /\ rx2 = <<>>

\* std::thread::joinable of a slot's thread or of accept_thread_: skipping every join
Joinable_Never(th) == FALSE

\* std::thread::joinable: the object holds a thread that was not joined yet
Joinable(th) == th # "none"

\* ---- Start and Stop, called by one thread ----

\* Start that starts a new accept loop although the server is running
Start_Restarting ==
  /\ main.pc = "idle"
  /\ \/ /\ running_
        /\ main' = [main EXCEPT !.last = "Start_refused"]
        /\ acc' = [NewAcc EXCEPT !.pc = "loop"]
        /\ accept_thread_' = "running"
        /\ UNCHANGED <<running_, listen_fd_, listening>>
     \/ /\ ~running_
        /\ main' = [main EXCEPT !.last = "Start_failed"]
        /\ listen_fd_' = -1
        /\ UNCHANGED <<running_, listening, accept_thread_, acc>>
     \/ /\ ~running_
        /\ main' = [main EXCEPT !.last = "Start_ok"]
        /\ listen_fd_' = kListenFd
        /\ listening' = TRUE
        /\ running_' = TRUE
        /\ accept_thread_' = "running"
        /\ acc' = [NewAcc EXCEPT !.pc = "loop"]
  /\ UNCHANGED <<max_sessions, config_, slots_, otherVars>>

\* Start: refused while running; else socket, bind, listen succeed or one of them fails
Start ==
  /\ main.pc = "idle"
  /\ \/ /\ running_
        /\ main' = [main EXCEPT !.last = "Start_refused"]
        /\ UNCHANGED <<running_, listen_fd_, listening, accept_thread_, acc>>
     \/ /\ ~running_
        /\ main' = [main EXCEPT !.last = "Start_failed"]
        /\ listen_fd_' = -1
        /\ UNCHANGED <<running_, listening, accept_thread_, acc>>
     \/ /\ ~running_
        /\ main' = [main EXCEPT !.last = "Start_ok"]
        /\ listen_fd_' = kListenFd
        /\ listening' = TRUE
        /\ running_' = TRUE
        /\ accept_thread_' = "running"
        /\ acc' = [NewAcc EXCEPT !.pc = "loop"]
  /\ UNCHANGED <<max_sessions, config_, slots_, otherVars>>

\* Stop: the running_ check and running_.store(false)
StopCall ==
  /\ main.pc = "idle"
  /\ IF ~running_
       THEN main' = [main EXCEPT !.last = "Stop_noop"] /\ UNCHANGED running_
       ELSE main' = [main EXCEPT !.pc = "stop_close"] /\ running_' = FALSE
  /\ UNCHANGED <<listen_fd_, listening, accept_thread_, max_sessions, config_, slots_, acc, otherVars>>

\* Stop: close(listen_fd_)
StopCloseListen ==
  /\ main.pc = "stop_close"
  /\ IF listen_fd_ >= 0
       THEN listening' = FALSE /\ listen_fd_' = -1
       ELSE UNCHANGED <<listening, listen_fd_>>
  /\ main' = [main EXCEPT !.pc = "stop_join_accept"]
  /\ UNCHANGED <<running_, accept_thread_, max_sessions, config_, slots_, acc, otherVars>>

\* Stop: accept_thread_.join(), which returns when the accept thread has ended
StopJoinAccept ==
  /\ main.pc = "stop_join_accept"
  /\ IF Joinable(accept_thread_)
       THEN accept_thread_ = "exited" /\ accept_thread_' = "none"
       ELSE UNCHANGED accept_thread_
  /\ main' = [main EXCEPT !.pc = "stop_slot", !.i = 0]
  /\ UNCHANGED <<running_, listen_fd_, listening, max_sessions, config_, slots_, acc, otherVars>>

\* Stop, slot i: session.Stop() if the slot is active
StopSlotStop ==
  /\ main.pc = "stop_slot"
  /\ slots_' = IF slots_[main.i].active
                 THEN [slots_ EXCEPT ![main.i].session = Stop_Session(@)]
                 ELSE slots_
  /\ main' = [main EXCEPT !.pc = "stop_slot_join"]
  /\ UNCHANGED <<running_, listen_fd_, listening, accept_thread_, max_sessions, config_, acc, otherVars>>

\* Stop, slot i: thread.join() if joinable
StopSlotJoin ==
  /\ main.pc = "stop_slot_join"
  /\ IF Joinable(slots_[main.i].thread)
       THEN slots_[main.i].thread = "exited" /\ slots_' = [slots_ EXCEPT ![main.i].thread = "none"]
       ELSE UNCHANGED slots_
  /\ main' = [main EXCEPT !.pc = "stop_slot_clear"]
  /\ UNCHANGED <<running_, listen_fd_, listening, accept_thread_, max_sessions, config_, acc, otherVars>>

\* Stop, slot i: active.store(false); after the last slot Stop returns
StopSlotClear ==
  /\ main.pc = "stop_slot_clear"
  /\ slots_' = [slots_ EXCEPT ![main.i].active = FALSE]
  /\ main' = IF main.i + 1 < kMaxSessions
               THEN [main EXCEPT !.pc = "stop_slot", !.i = main.i + 1]
               ELSE [main EXCEPT !.pc = "idle", !.i = 0, !.last = "Stop"]
  /\ UNCHANGED <<running_, listen_fd_, listening, accept_thread_, max_sessions, config_, acc, otherVars>>

\* ---- AcceptLoop ----

\* while (running_.load())
AcceptLoopCheck ==
  /\ acc.pc = "loop"
  /\ IF running_
       THEN acc' = [NewAcc EXCEPT !.pc = "accept"] /\ UNCHANGED accept_thread_
       ELSE acc' = [NewAcc EXCEPT !.pc = "done"] /\ accept_thread_' = "exited"
  /\ UNCHANGED <<running_, listen_fd_, listening, max_sessions, config_, slots_, main, otherVars>>

\* accept returns a new connection
AcceptConn ==
  /\ acc.pc = "accept" /\ listening
  /\ acc' = [acc EXCEPT !.pc = "find", !.fd = kClientFd,
                        !.hadFree = \E j \in Slots : j < max_sessions /\ ~slots_[j].active]
  /\ UNCHANGED <<running_, listen_fd_, listening, accept_thread_, max_sessions, config_, slots_,
                 main, otherVars>>

\* an accept failure that also marks the server stopped
AcceptFail_StopsServer ==
  /\ acc.pc = "accept"
  /\ acc' = [NewAcc EXCEPT !.pc = "done"]
  /\ accept_thread_' = "exited"
  /\ running_' = FALSE
  /\ UNCHANGED <<listen_fd_, listening, max_sessions, config_, slots_, main, otherVars>>

\* accept fails: the listening socket was closed, or an error such as EMFILE
AcceptFail ==
  /\ acc.pc = "accept"
  /\ acc' = [NewAcc EXCEPT !.pc = "done"]
  /\ accept_thread_' = "exited"
  /\ UNCHANGED <<running_, listen_fd_, listening, max_sessions, config_, slots_, main, otherVars>>

\* FindFreeSlot looking at every slot of the array, whatever max_sessions is
FindFreeSlot_AllSlots(a) ==
  IF ~(a.i < kMaxSessions) THEN [a EXCEPT !.pc = "reject", !.slot = -1]
  ELSE IF ~slots_[a.i].active
    THEN IF Joinable(slots_[a.i].thread) THEN [a EXCEPT !.pc = "find_join"]
         ELSE [a EXCEPT !.pc = "init", !.slot = a.i]
  ELSE [a EXCEPT !.i = a.i + 1]

\* FindFreeSlot returning an inactive slot without joining its thread
FindFreeSlot_NoJoin(a) ==
  IF ~(a.i < max_sessions /\ a.i < kMaxSessions) THEN [a EXCEPT !.pc = "reject", !.slot = -1]
  ELSE IF ~slots_[a.i].active THEN [a EXCEPT !.pc = "init", !.slot = a.i]
  ELSE [a EXCEPT !.i = a.i + 1]

\* FindFreeSlot giving slot 0 away when no slot is free
FindFreeSlot_NeverFull(a) ==
  IF ~(a.i < max_sessions /\ a.i < kMaxSessions) THEN [a EXCEPT !.pc = "init", !.slot = 0]
  ELSE IF ~slots_[a.i].active
    THEN IF Joinable(slots_[a.i].thread) THEN [a EXCEPT !.pc = "find_join"]
         ELSE [a EXCEPT !.pc = "init", !.slot = a.i]
  ELSE [a EXCEPT !.i = a.i + 1]

\* FindFreeSlot, one pass of its loop at index a.i: the accept thread's next position
FindFreeSlot(a) ==
  IF ~(a.i < max_sessions /\ a.i < kMaxSessions) THEN [a EXCEPT !.pc = "reject", !.slot = -1]
  ELSE IF ~slots_[a.i].active
    THEN IF Joinable(slots_[a.i].thread) THEN [a EXCEPT !.pc = "find_join"]
         ELSE [a EXCEPT !.pc = "init", !.slot = a.i]
  ELSE [a EXCEPT !.i = a.i + 1]

AcceptFind ==
  /\ acc.pc = "find"
  /\ acc' = FindFreeSlot(acc)
  /\ UNCHANGED <<running_, listen_fd_, listening, accept_thread_, max_sessions, config_, slots_,
                 main, otherVars>>

\* FindFreeSlot: slots_[i].thread.join(), then return i
AcceptFindJoin ==
  /\ acc.pc = "find_join"
  /\ slots_[acc.i].thread = "exited"
  /\ slots_' = [slots_ EXCEPT ![acc.i].thread = "none"]
  /\ acc' = [acc EXCEPT !.pc = "init", !.slot = acc.i]
  /\ UNCHANGED <<running_, listen_fd_, listening, accept_thread_, max_sessions, config_, main, otherVars>>

\* no free slot: send "Server full.", close(fd), continue
AcceptReject ==
  /\ acc.pc = "reject"
  /\ acc' = [acc EXCEPT !.pc = "loop", !.sent = StrServerFull, !.closed = TRUE]
  /\ UNCHANGED <<running_, listen_fd_, listening, accept_thread_, max_sessions, config_, slots_,
                 main, otherVars>>

\* slots_[idx].session.Init(fd, *registry_, scfg)
AcceptInit ==
  /\ acc.pc = "init"
  /\ slots_' = [slots_ EXCEPT ![acc.slot].session = Init_Session(@, acc.fd, ServerSessionConfig),
                              ![acc.slot].rx = <<>>,
                              ![acc.slot].peer = "open"]
  /\ acc' = [acc EXCEPT !.pc = "activate"]
  /\ UNCHANGED <<running_, listen_fd_, listening, accept_thread_, max_sessions, config_, main, otherVars>>

\* slots_[idx].active.store(true)
AcceptActivate ==
  /\ acc.pc = "activate"
  /\ slots_' = [slots_ EXCEPT ![acc.slot].active = TRUE]
  /\ acc' = [acc EXCEPT !.pc = "spawn"]
  /\ UNCHANGED <<running_, listen_fd_, listening, accept_thread_, max_sessions, config_, main, otherVars>>

\* slots_[idx].thread = std::thread(SessionLoop)
AcceptSpawn ==
  /\ acc.pc = "spawn"
  /\ slots_' = [slots_ EXCEPT ![acc.slot].thread = "running", ![acc.slot].pc = "start"]
  /\ acc' = [acc EXCEPT !.pc = "loop", !.fd = -1]
  /\ UNCHANGED <<running_, listen_fd_, listening, accept_thread_, max_sessions, config_, main, otherVars>>

AcceptLoop ==
  \/ AcceptLoopCheck \/ AcceptConn \/ AcceptFail
  \/ AcceptFind \/ AcceptFindJoin \/ AcceptReject
  \/ AcceptInit \/ AcceptActivate \/ AcceptSpawn

\* ---- SessionLoop(idx): session.Run(), active.store(false), return ----

SlotStart(i) ==
  /\ slots_[i].pc = "start"
  /\ slots_' = IF slots_[i].session.sock_fd < 0
                 THEN [slots_ EXCEPT ![i].pc = "clear"]
                 ELSE [slots_ EXCEPT ![i].pc = "loop", ![i].session = RunStart(@)]
  /\ UNCHANGED <<running_, listen_fd_, listening, accept_thread_, max_sessions, config_, acc, main,
                 otherVars>>

SlotLoop(i) ==
  /\ slots_[i].pc = "loop"
  /\ slots_' = [slots_ EXCEPT ![i].pc = IF slots_[i].session.running THEN "recv" ELSE "close"]
  /\ UNCHANGED <<running_, listen_fd_, listening, accept_thread_, max_sessions, config_, acc, main,
                 otherVars>>

SlotRecv(i) ==
  /\ slots_[i].pc = "recv" /\ slots_[i].rx # <<>>
  /\ slots_' = [slots_ EXCEPT ![i].pc = "loop",
                              ![i].session = RunByte(@, Head(slots_[i].rx)),
                              ![i].rx = Tail(@)]
  /\ UNCHANGED <<running_, listen_fd_, listening, accept_thread_, max_sessions, config_, acc, main,
                 otherVars>>

\* recv returns 0 or fails: the peer closed, or the socket was shut down
SlotRecvEnd(i) ==
  /\ slots_[i].pc = "recv"
  /\ (slots_[i].peer = "closed" /\ slots_[i].rx = <<>>) \/ slots_[i].session.shut
  /\ slots_' = [slots_ EXCEPT ![i].pc = "close"]
  /\ UNCHANGED <<running_, listen_fd_, listening, accept_thread_, max_sessions, config_, acc, main,
                 otherVars>>

SlotClose(i) ==
  /\ slots_[i].pc = "close"
  /\ slots_' = [slots_ EXCEPT ![i].pc = "clear", ![i].session = Close(Fresh(@)),
                              ![i].rx = <<>>, ![i].peer = "none"]
  /\ UNCHANGED <<running_, listen_fd_, listening, accept_thread_, max_sessions, config_, acc, main,
                 otherVars>>

\* SessionLoop without the store to the slot's flag
SlotClear_KeepActive(i) ==
  /\ slots_[i].pc = "clear"
  /\ slots_' = [slots_ EXCEPT ![i].pc = "return"]
  /\ UNCHANGED <<running_, listen_fd_, listening, accept_thread_, max_sessions, config_, acc, main,
                 otherVars>>

\* slots_[idx].active.store(false)
SlotClear(i) ==
  /\ slots_[i].pc = "clear"
  /\ slots_' = [slots_ EXCEPT ![i].pc = "return", ![i].active = FALSE]
  /\ UNCHANGED <<running_, listen_fd_, listening, accept_thread_, max_sessions, config_, acc, main,
                 otherVars>>

\* SessionLoop returns and the thread ends
SlotReturn(i) ==
  /\ slots_[i].pc = "return"
  /\ slots_' = [slots_ EXCEPT ![i].pc = "none", ![i].thread = "exited"]
  /\ UNCHANGED <<running_, listen_fd_, listening, accept_thread_, max_sessions, config_, acc, main,
                 otherVars>>

SessionLoop(i) ==
  \/ SlotStart(i) \/ SlotLoop(i) \/ SlotRecv(i) \/ SlotRecvEnd(i)
  \/ SlotClose(i) \/ SlotClear(i) \/ SlotReturn(i)

\* ---- the clients ----

SlotClientSend(i) ==
  /\ slots_[i].peer = "open" /\ slots_[i].rx = <<>> /\ slots_[i].pc = "recv"
  /\ \E f \in ServerFrags : slots_' = [slots_ EXCEPT ![i].rx = f, ![i].peer = "sent"]
  /\ UNCHANGED <<running_, listen_fd_, listening, accept_thread_, max_sessions, config_, acc, main,
                 otherVars>>

SlotClientClose(i) ==
  /\ slots_[i].peer \in {"open", "sent"} /\ slots_[i].rx = <<>>
  /\ slots_[i].pc = "recv"
  /\ slots_' = [slots_ EXCEPT ![i].peer = "closed"]
  /\ UNCHANGED <<running_, listen_fd_, listening, accept_thread_, max_sessions, config_, acc, main,
                 otherVars>>

StopSteps ==
  \/ StopCall \/ StopCloseListen \/ StopJoinAccept
  \/ StopSlotStop \/ StopSlotJoin \/ StopSlotClear

NextServer ==
  \/ Start \/ StopSteps
  \/ AcceptLoop
  \/ \E i \in Slots : SessionLoop(i) \/ SlotClientSend(i) \/ SlotClientClose(i)

SpecServer == InitServer /\ [][NextServer]_vars

\* the accept thread's own steps, and accept failing once the listening socket is closed
AcceptSteps ==
  \/ AcceptLoopCheck \/ AcceptFind \/ AcceptFindJoin \/ AcceptReject
  \/ AcceptInit \/ AcceptActivate \/ AcceptSpawn

AcceptUnblocked == AcceptFail /\ ~listening

\* Stop's thread keeps running; of the accept thread and the session threads, some
\* thread that can take a step does; nothing is assumed of clients and new connections
FairServer ==
  /\ WF_vars(StopSteps)
  /\ WF_vars(AcceptSteps \/ AcceptUnblocked \/ \E i \in Slots : SessionLoop(i))

SpecServerFair == InitServer /\ [][NextServer]_vars /\ FairServer

\* the scheduler runs every session thread that can return from recv with an
\* end of stream, close its socket or clear its slot's flag
FairTeardown ==
  \A i \in 0..(MaxCfgSessions - 1) :
    WF_vars(SlotRecvEnd(i)) /\ WF_vars(SlotClose(i)) /\ WF_vars(SlotClear(i))

SpecServerTeardown == InitServer /\ [][NextServer]_vars /\ FairTeardown

-----------------------------------------------------------------------------
(* Broadcast, called by a thread of the application while the server runs  *)
(* and its clients pause their output, leave or disconnect.                *)

\* the number of Broadcast calls the application makes
MaxBroadcasts == 1

\* what a client of this server types: Ctrl-S, Ctrl-S then Ctrl-Q, or exit
BcFrags == {<<ChXOFF>>, <<ChXOFF, ChXON>>, StrExit \o <<ChCR>>}

BcClientSend(i) ==
  /\ slots_[i].peer = "open" /\ slots_[i].rx = <<>> /\ slots_[i].pc = "recv"
  /\ \E f \in BcFrags : slots_' = [slots_ EXCEPT ![i].rx = f, ![i].peer = "sent"]
  /\ UNCHANGED <<running_, listen_fd_, listening, accept_thread_, max_sessions, config_, acc, main,
                 otherVars>>

\* Broadcast's loop goes on to the next slot, or returns after the last one.  The
\* slots from the largest max_sessions on are never initialized and no thread
\* writes them: the loop passes them, finding active false, in the same step.
BcNextSlot(b) ==
  IF b.i + 1 < MaxCfgSessions /\ b.i + 1 < kMaxSessions
    THEN [b EXCEPT !.pc = "load", !.i = b.i + 1, !.fd = -1]
    ELSE [b EXCEPT !.pc = "idle", !.i = 0, !.fd = -1]

\* Broadcast(data, len) is called with some bytes
BcCall ==
  /\ bc.pc = "idle" /\ bc.calls < MaxBroadcasts
  /\ bc' = [bc EXCEPT !.pc = "load", !.i = 0, !.calls = @ + 1]
  /\ UNCHANGED <<srvVars, sessVars, runVars, regVars, rt, iacLog, lastCall, pastBuf>>

\* if (slots_[i].active.load())
BcLoad ==
  /\ bc.pc = "load"
  /\ bc' = IF slots_[bc.i].active THEN [bc EXCEPT !.pc = "check"] ELSE BcNextSlot(bc)
  /\ UNCHANGED <<srvVars, sessVars, runVars, regVars, rt, iacLog, lastCall, pastBuf>>

\* Send: if (... || sock_fd_ < 0) return; the descriptor read stays in hand
BcCheck ==
  /\ bc.pc = "check"
  /\ bc' = IF slots_[bc.i].session.sock_fd < 0 THEN BcNextSlot(bc)
            ELSE [bc EXCEPT !.pc = "paused", !.fd = slots_[bc.i].session.sock_fd]
  /\ UNCHANGED <<srvVars, sessVars, runVars, regVars, rt, iacLog, lastCall, pastBuf>>

\* Send: if (output_paused_) return
BcPaused ==
  /\ bc.pc = "paused"
  /\ bc' = IF slots_[bc.i].session.output_paused THEN BcNextSlot(bc)
            ELSE [bc EXCEPT !.pc = "send"]
  /\ UNCHANGED <<srvVars, sessVars, runVars, regVars, rt, iacLog, lastCall, pastBuf>>

\* Send: ::send(sock_fd_, data, len, MSG_NOSIGNAL).  sock_fd_ is a plain int
\* that the session thread writes without synchronization: the call gets the
\* value read for the check or the value the member has now.  The send is
\* recorded with what the owning session's state is when it is issued.
BcSend ==
  /\ bc.pc = "send"
  /\ \E fd \in {bc.fd, slots_[bc.i].session.sock_fd} :
       bc' = [BcNextSlot(bc) EXCEPT
                !.sends = Append(bc.sends,
                  [slot |-> bc.i, fd |-> fd,
                   active |-> slots_[bc.i].active,
                   closed |-> fd >= 0 /\ slots_[bc.i].session.sock_fd # fd,
                   paused |-> slots_[bc.i].session.output_paused])]
  /\ UNCHANGED <<srvVars, sessVars, runVars, regVars, rt, iacLog, lastCall, pastBuf>>

Broadcast == BcCall \/ BcLoad \/ BcCheck \/ BcPaused \/ BcSend

NextBroadcast ==
  \/ Start
  \/ AcceptLoop
  \/ \E i \in Slots : SessionLoop(i) \/ BcClientSend(i) \/ SlotClientClose(i)
  \/ Broadcast

\* a server configured for one session at a time
InitBroadcast == InitServer /\ max_sessions = 1

SpecBroadcast == InitBroadcast /\ [][NextBroadcast]_vars

-----------------------------------------------------------------------------
(* A server for one session at a time, with or without a login, whose      *)
(* clients leave their session in the middle of things (SpecReuse).        *)

\* what a client types before it disconnects: Ctrl-S, the start of an escape
\* or of an IAC sequence, an unfinished line, one line, three lines (with a
\* login: username, password and a command), or exit
ReuseFrags ==
  { <<ChXOFF>>, <<ChESC>>, <<kIAC>>, <<ChA>>,
    <<ChA, ChCR>>,
    <<ChA, ChCR, ChA, ChCR, ChA, ChCR>>,
    StrExit \o <<ChCR>> }

\* no login, a username without a password (no login either), the login a / a
ReuseLogins ==
  { [username |-> NullStr, password |-> NullStr],
    [username |-> <<ChA>>, password |-> NullStr],
    [username |-> <<ChA>>, password |-> <<ChA>>] }

ReuseClientSend(i) ==
  /\ slots_[i].peer = "open" /\ slots_[i].rx = <<>> /\ slots_[i].pc = "recv"
  /\ \E f \in ReuseFrags : slots_' = [slots_ EXCEPT ![i].rx = f, ![i].peer = "sent"]
  /\ UNCHANGED <<running_, listen_fd_, listening, accept_thread_, max_sessions, config_, acc, main,
                 otherVars>>

\* slots_[idx].session.Init(fd, *registry_, scfg); lastCall keeps the session
\* object as the slot's previous connection left it, and whether there was one
ReuseInit ==
  /\ acc.pc = "init"
  /\ slots_' = [slots_ EXCEPT ![acc.slot].session = Init_Session(@, acc.fd, ServerSessionConfig),
                              ![acc.slot].rx = <<>>,
                              ![acc.slot].peer = "open"]
  /\ acc' = [acc EXCEPT !.pc = "activate"]
  /\ lastCall' = [op |-> "init", slot |-> acc.slot,
                  reused |-> slots_[acc.slot].thread # "none" \/ lastCall.op = "init",
                  before |-> slots_[acc.slot].session]
  /\ UNCHANGED <<running_, listen_fd_, listening, accept_thread_, max_sessions, config_, main,
                 sessVars, runVars, regVars, rt, iacLog, pastBuf, bc>>

NextReuse ==
  \/ Start
  \/ AcceptLoopCheck \/ AcceptConn \/ AcceptFail
  \/ AcceptFind \/ AcceptFindJoin \/ AcceptReject
  \/ ReuseInit \/ AcceptActivate \/ AcceptSpawn
  \/ \E i \in Slots : SessionLoop(i) \/ ReuseClientSend(i) \/ SlotClientClose(i)

InitReuse ==
  /\ \E login \in ReuseLogins : ServerStoppedWith(1, login)
  /\ NoAux
  /\ RegistryOf(<<CmdA>>)
  /\ NoRegThreads
  /\ sess = NewSession /\ thr = "none" /\ rx = <<>> /\ peer = "none" /\ userLine = <<>>
  /\ sess2 = NewSession /\ rx2 = <<>>

SpecReuse == InitReuse /\ [][NextReuse]_vars

-----------------------------------------------------------------------------
(* A reference tokenizer, written from the description of ShellSplit and   *)
(* not from its code: whitespace outside quotes separates, a quote         *)
(* character toggles its own quoting unless the other quote is open, and   *)
(* the toggling quote characters are dropped from the text.                *)

RefWhitespace == {ChSpace, ChTab, ChCR, ChLF}

\* the quoting in force after ch is read with quoting q in force
RefQuoteAfter(q, ch) ==
  IF ch = ChSQuote /\ q = "none" THEN "single"
  ELSE IF ch = ChSQuote /\ q = "single" THEN "none"
  ELSE IF ch = ChDQuote /\ q = "none" THEN "double"
  ELSE IF ch = ChDQuote /\ q = "double" THEN "none"
  ELSE q

\* for each character of the line, the quoting in force when it is read
RECURSIVE RefQuoting(_, _)
RefQuoting(rest, q) ==
  IF rest = <<>> THEN <<>>
  ELSE <<q>> \o RefQuoting(Tail(rest), RefQuoteAfter(q, Head(rest)))

\* character k separates tokens
RefIsSep(line, qs, k) == line[k] \in RefWhitespace /\ qs[k] = "none"

\* character k is a quote character that opens or closes a quote
RefIsQuote(line, qs, k) ==
  \/ line[k] = ChSQuote /\ qs[k] # "double"
  \/ line[k] = ChDQuote /\ qs[k] # "single"

\* the last character of the run of non-separators that starts at k
RECURSIVE RefRunEnd(_, _, _)
RefRunEnd(line, qs, k) ==
  IF k = Len(line) \/ RefIsSep(line, qs, k + 1) THEN k ELSE RefRunEnd(line, qs, k + 1)

\* the text of characters k..j without the quote characters
RECURSIVE RefText(_, _, _, _)
RefText(line, qs, k, j) ==
  IF k > j THEN <<>>
  ELSE (IF RefIsQuote(line, qs, k) THEN <<>> ELSE <<line[k]>>) \o RefText(line, qs, k + 1, j)

RECURSIVE RefTokensFrom(_, _, _)
RefTokensFrom(line, qs, k) ==
  IF k > Len(line) THEN <<>>
  ELSE IF RefIsSep(line, qs, k) THEN RefTokensFrom(line, qs, k + 1)
  ELSE LET j == RefRunEnd(line, qs, k)
       IN <<RefText(line, qs, k, j)>> \o RefTokensFrom(line, qs, j + 1)

RefTokens(line) == RefTokensFrom(line, RefQuoting(line, "none"), 1)

\* needle occurs in hay as a run of consecutive elements
Contains(hay, needle) ==
  \E k \in 0..(Len(hay) - Len(needle)) : SubSeq(hay, k + 1, k + Len(needle)) = needle

-----------------------------------------------------------------------------
(* One caller using a CommandRegistry (SpecCalls): Register and Execute    *)
(* called one after the other, each run to completion, as the registry's   *)
(* tests do.                                                                *)

\* a token too long for "Unknown command: %s\r\n" to fit buf
LongName == Repeat(<<ChA>>, kFmtBufSize - Len(StrUnknownPrefix))
\* a description too long for a help line to fit buf
LongDesc == Repeat(<<ChB>>, kFmtBufSize - kHelpNameWidth)

\* the names and descriptions a caller registers: a null name, a null
\* description, a command named help, and a description too long for buf
CallNamed ==
  { <<<<ChA>>, <<ChB>>>>, <<<<ChB>>, NullStr>>, <<StrHelp, <<ChB>>>>,
    <<<<ChA>>, LongDesc>>, <<NullStr, <<ChB>>>> }
\* handlers, named by the status they return; 0 is the null handler
CallFns == {0, 1, -1}
CallCtxs == {0, 1}

\* one token more than Execute's argv holds
TooManyArgs == Repeat(<<ChA, ChSpace>>, kMaxArgs + 1)

CallLines ==
  { <<>>, <<ChSpace>>, <<ChSpace, ChTab>>,
    <<ChA>>, StrHelp, StrHelp \o <<ChSpace, ChA>>,
    <<ChSpace, ChB, ChSpace, ChSQuote, ChA, ChSpace, ChSQuote>>,
    <<ChA, ChB>>, <<ChDQuote, ChA, ChDQuote>>,
    LongName, TooManyArgs }

InitCalls ==
  /\ RegistryOf(<<>>)
  /\ NoRegThreads
  /\ iacLog = <<>> /\ lastCall = NoCall
  /\ pastBuf \in {0, ChA}
  /\ bc = NoBc
  /\ sess = NewSession /\ thr = "none" /\ rx = <<>> /\ peer = "none" /\ userLine = <<>>
  /\ sess2 = NewSession /\ rx2 = <<>>
  /\ ServerStopped(1)

CallRegister ==
  /\ \E nd \in CallNamed, fn \in CallFns, ctx \in CallCtxs :
       LET name == nd[1]
           desc == nd[2]
           r == Register(name, desc, fn, ctx)
       IN /\ entries_' = r.entries
          /\ count_' = r.count
          /\ lastCall' = [op |-> "Register", name |-> name, desc |-> desc, fn |-> fn,
                          ctx |-> ctx, ok |-> r.ok]
  /\ UNCHANGED <<mutex_, rt, sessVars, runVars, srvVars, iacLog, pastBuf, bc>>

CallExecute ==
  /\ \E line \in CallLines :
       LET r == Execute(line)
       IN lastCall' = [op |-> "Execute", line |-> line, ret |-> r.ret,
                       output |-> r.output, calls |-> r.calls]
  /\ UNCHANGED <<regVars, rt, sessVars, runVars, srvVars, iacLog, pastBuf, bc>>

NextCalls == CallRegister \/ CallExecute
SpecCalls == InitCalls /\ [][NextCalls]_vars

-----------------------------------------------------------------------------
(* ShellSplit applied to one line (SpecSplit): every line over the         *)
(* alphabet up to MaxLineLen characters, with every max_args up to         *)
(* kMaxArgs.                                                                *)

MaxLineLen == 5
SplitAlphabet == {ChA, ChSpace, ChTab, ChCR, ChLF, ChSQuote, ChDQuote}
SplitLines == UNION {[1..n -> SplitAlphabet] : n \in 0..MaxLineLen}

InitSplit == InitCalls /\ pastBuf = 0

CallShellSplit ==
  /\ lastCall = NoCall
  /\ \E line \in SplitLines, max_args \in 1..kMaxArgs :
       LET r == ShellSplit(line, max_args)
       IN lastCall' = [op |-> "ShellSplit", line |-> line, max_args |-> max_args,
                       argc |-> r.argc, argv |-> r.argv]
  /\ UNCHANGED <<regVars, rt, sessVars, runVars, srvVars, iacLog, pastBuf, bc>>

NextSplit == CallShellSplit
SpecSplit == InitSplit /\ [][NextSplit]_vars

-----------------------------------------------------------------------------
(* One authorized session fed single bytes (SpecIac): the client sends     *)
(* telnet command bytes and a letter in any order, and each pass of Run's  *)
(* loop is logged with what FilterIac returned.                             *)

MaxIacLen == 6
IacBytes == {ChA, kSE, kSB, kWILL, kDONT, kIAC}

InitIac ==
  /\ sess = Init_Session(NewSession, 3, SessionConfig(NullStr, NullStr, StrPrompt, NullStr))
  /\ thr = "start"
  /\ rx = <<>>
  /\ peer = "open"
  /\ userLine = <<>>
  /\ sess2 = NewSession /\ rx2 = <<>>
  /\ RegistryOf(<<CmdA>>)
  /\ NoRegThreads
  /\ ServerStopped(1)
  /\ NoAux

IacStart ==
  /\ thr = "start"
  /\ sess' = RunStart(sess)
  /\ thr' = "recv"
  /\ UNCHANGED <<rx, peer, userLine, regVars, runVars, rt, srvVars, auxVars>>

IacSend ==
  /\ thr = "recv" /\ rx = <<>> /\ sess.running
  /\ Len(iacLog) < MaxIacLen
  /\ \E byte \in IacBytes : rx' = <<byte>>
  /\ UNCHANGED <<sess, thr, peer, userLine, regVars, runVars, rt, srvVars, auxVars>>

\* recv returned one byte: FilterIac, then ProcessChar unless it returned '\0'
IacRecv ==
  /\ thr = "recv" /\ rx # <<>>
  /\ sess' = RunByte(sess, Head(rx))
  /\ rx' = Tail(rx)
  /\ iacLog' = Append(iacLog, [byte |-> Head(rx),
                               before |-> sess.iac_phase,
                               c |-> FilterIac(Fresh(sess), Head(rx)).c,
                               after |-> sess'.iac_phase,
                               emit |-> sess'.emit,
                               cmd_buf |-> sess'.cmd_buf])
  /\ UNCHANGED <<thr, peer, userLine, regVars, runVars, rt, srvVars, lastCall, pastBuf, bc>>

NextIac == IacStart \/ IacSend \/ IacRecv
SpecIac == InitIac /\ [][NextIac]_vars

-----------------------------------------------------------------------------
(* One session fed single bytes (SpecEsc): the client sends     *)
(* ESC, the bytes of arrow sequences, Enter, LF, Ctrl-S, a letter, IAC and  *)
(* NUL in any order.                                                       *)

\* the byte for which Run skips ProcessChar: FilterIac's '\0'
ChNUL == 0

\* the number of bytes the client sends
MaxEscLen == 5
EscBytes == {ChESC, ChLBracket, ChUp, ChDown, ChRight, ChCR, ChLF, ChXOFF, ChA, kIAC, ChNUL}

\* no login, or the login a / a
EscConfigs ==
  { SessionConfig(NullStr, NullStr, StrPrompt, NullStr),
    SessionConfig(<<ChA>>, <<ChA>>, StrPrompt, NullStr) }

\* n: the bytes sent so far.  since: the bytes received after the last ESC that
\* arrived outside an IAC or escape sequence, counted up to 2 (-1: no such ESC,
\* or more than two bytes ago).  first: the byte that followed that ESC.
\* last: the byte received last.
InitEsc ==
  /\ \E cfg \in EscConfigs : sess = Init_Session(NewSession, 3, cfg)
  /\ thr = "start"
  /\ rx = <<>>
  /\ peer = "open"
  /\ userLine = <<>>
  /\ sess2 = NewSession /\ rx2 = <<>>
  /\ RegistryOf(<<CmdA>>)
  /\ NoRegThreads
  /\ ServerStopped(1)
  /\ iacLog = <<>> /\ pastBuf = 0 /\ bc = NoBc
  /\ lastCall = [op |-> "esc", n |-> 0, since |-> -1, first |-> -1, last |-> -1]

EscSend ==
  /\ thr = "recv" /\ rx = <<>> /\ sess.running
  /\ lastCall.n < MaxEscLen
  /\ \E byte \in EscBytes : rx' = <<byte>>
  /\ lastCall' = [lastCall EXCEPT !.n = @ + 1]
  /\ UNCHANGED <<sess, thr, peer, userLine, regVars, runVars, rt, srvVars, iacLog, pastBuf, bc>>

\* recv returned one byte: FilterIac, then ProcessChar unless it returned '\0'
EscRecv ==
  /\ thr = "recv" /\ rx # <<>>
  /\ sess' = RunByte(sess, Head(rx))
  /\ rx' = Tail(rx)
  /\ lastCall' =
       LET l == [lastCall EXCEPT !.last = Head(rx)]
       IN IF Head(rx) = ChESC /\ sess.iac_phase = "kNormal" /\ sess.arrow = "kNone"
            THEN [l EXCEPT !.since = 0, !.first = -1]
          ELSE IF lastCall.since = 0
            THEN [l EXCEPT !.since = 1, !.first = Head(rx)]
          ELSE IF lastCall.since = 1
            THEN [l EXCEPT !.since = 2]
          ELSE [l EXCEPT !.since = -1, !.first = -1]
  /\ UNCHANGED <<thr, peer, userLine, regVars, runVars, rt, srvVars, iacLog, pastBuf, bc>>

NextEsc == IacStart \/ EscSend \/ EscRecv
SpecEsc == InitEsc /\ [][NextEsc]_vars

-----------------------------------------------------------------------------
(* The history ring of one session (SpecHistory): lines pushed one after   *)
(* the other, as ExecuteCommand pushes each completed line.                *)

MaxPushes == 5
HistLines == {<<>>, <<ChA>>, <<ChB>>, <<ChA, ChB>>}

InitHistory ==
  /\ sess = Init_Session(NewSession, 3, SessionConfig(NullStr, NullStr, StrPrompt, NullStr))
  /\ thr = "none"
  /\ rx = <<>>
  /\ peer = "open"
  /\ userLine = <<>>
  /\ sess2 = NewSession /\ rx2 = <<>>
  /\ RegistryOf(<<CmdA>>)
  /\ NoRegThreads
  /\ ServerStopped(1)
  /\ NoAux

\* the lines pushed so far
Pushed == IF lastCall.op = "PushHistory" THEN lastCall.pushed ELSE <<>>

CallPushHistory ==
  /\ Len(Pushed) < MaxPushes
  /\ \E line \in HistLines :
       /\ sess' = PushHistory(sess, line)
       /\ lastCall' = [op |-> "PushHistory", pushed |-> Append(Pushed, line)]
  /\ UNCHANGED <<thr, rx, peer, userLine, regVars, runVars, rt, srvVars, iacLog, pastBuf, bc>>

NextHistory == CallPushHistory
SpecHistory == InitHistory /\ [][NextHistory]_vars

-----------------------------------------------------------------------------
(* The line editor of an authorized session: one client typing letters,    *)
(* Enter, Backspace, the arrows, Ctrl-S, Ctrl-Q, and the reserved words.   *)

StrUpArrow == <<ChESC, ChLBracket, ChUp>>
StrDownArrow == <<ChESC, ChLBracket, ChDown>>

\* the largest number of consecutive Up-arrows the client types
MaxUps == kHistorySize + 2

\* what the client types: keys at any time, and at an empty line also a
\* reserved word with Enter and one more letter
EditFrags ==
  {<<ChA>>, <<ChCR>>, <<ChBS>>, StrUpArrow, StrDownArrow, <<ChXOFF>>, <<ChXON>>}
    \cup (IF sess.cmd_buf = <<>>
            THEN {StrExit \o <<ChCR, ChA>>, StrQuit \o <<ChCR, ChA>>}
            ELSE {})

\* the number of Up-arrows typed in a row since the last prompt, still kept
\* while Down-arrows follow them, -1 once another key came between; Ctrl-S and
\* Ctrl-Q do not count as keys
UpsAfter(f) ==
  IF f = StrUpArrow
    THEN (IF lastCall.ups >= 0 /\ lastCall.downs = 0 THEN lastCall.ups + 1 ELSE -1)
  ELSE IF f = StrDownArrow
    THEN (IF lastCall.ups >= 1 /\ lastCall.downs < lastCall.ups THEN lastCall.ups ELSE -1)
  ELSE IF f \in {<<ChXOFF>>, <<ChXON>>} THEN lastCall.ups
  ELSE IF f[Len(f)] = ChCR THEN 0
  ELSE -1

\* the number of Down-arrows typed in a row right after those Up-arrows, at
\* most as many as there were
DownsAfter(f) ==
  IF f = StrDownArrow
    THEN (IF lastCall.ups >= 1 /\ lastCall.downs < lastCall.ups THEN lastCall.downs + 1 ELSE 0)
  ELSE IF f \in {<<ChXOFF>>, <<ChXON>>} THEN lastCall.downs
  ELSE 0

InitEdit ==
  /\ sess = Init_Session(NewSession, 3, SessionConfig(NullStr, NullStr, StrPrompt, NullStr))
  /\ thr = "start"
  /\ rx = <<>>
  /\ peer = "open"
  /\ userLine = <<>>
  /\ sess2 = NewSession /\ rx2 = <<>>
  /\ RegistryOf(<<CmdA>>)
  /\ NoRegThreads
  /\ ServerStopped(1)
  /\ iacLog = <<>> /\ pastBuf = 0 /\ bc = NoBc
  /\ lastCall = [op |-> "edit", ups |-> 0, downs |-> 0, last |-> <<>>]

\* the client types one key or one line
EditSend ==
  /\ peer = "open" /\ rx = <<>> /\ thr \in {"loop", "recv"}
  /\ \E f \in EditFrags :
       /\ f = StrUpArrow => lastCall.ups < MaxUps
       /\ rx' = f
       /\ lastCall' = [op |-> "edit", ups |-> UpsAfter(f), downs |-> DownsAfter(f),
                                   last |-> f]
  /\ UNCHANGED <<sess, thr, peer, userLine, regVars, runVars, rt, srvVars, iacLog, pastBuf, bc>>

NextEdit == SessionThread \/ EditSend \/ ClientClose
SpecEdit == InitEdit /\ [][NextEdit]_vars

-----------------------------------------------------------------------------
(* One session behind the login a / b (SpecRecall): the client types       *)
(* letters, Enter and the arrow keys at the login prompts and, once logged *)
(* in, the letter a, Enter and the arrow keys: never again the letter b of *)
(* the password.                                                           *)

RecallFrags ==
  IF sess.auth = "kAuthorized"
    THEN {<<ChA>>, <<ChCR>>, StrUpArrow, StrDownArrow}
    ELSE {<<ChA>>, <<ChB>>, <<ChCR>>, StrUpArrow, StrDownArrow}

\* last: the key typed last; at: the login state it was typed in
InitRecall ==
  /\ sess = Init_Session(NewSession, 3, SessionConfig(<<ChA>>, <<ChB>>, StrPrompt, NullStr))
  /\ thr = "start"
  /\ rx = <<>>
  /\ peer = "open"
  /\ userLine = <<>>
  /\ sess2 = NewSession /\ rx2 = <<>>
  /\ RegistryOf(<<CmdA>>)
  /\ NoRegThreads
  /\ ServerStopped(1)
  /\ iacLog = <<>> /\ pastBuf = 0 /\ bc = NoBc
  /\ lastCall = [op |-> "recall", last |-> <<>>, at |-> "none"]

RecallSend ==
  /\ peer = "open" /\ rx = <<>> /\ thr \in {"loop", "recv"}
  /\ \E f \in RecallFrags :
       /\ rx' = f
       /\ lastCall' = [op |-> "recall", last |-> f, at |-> sess.auth]
  /\ UNCHANGED <<sess, thr, peer, userLine, regVars, runVars, rt, srvVars, iacLog, pastBuf, bc>>

NextRecall == SessionThread \/ RecallSend \/ ClientClose
SpecRecall == InitRecall /\ [][NextRecall]_vars

-----------------------------------------------------------------------------
(* Claims about the server's slots, Stop and the full server.              *)

ActiveSlots == {i \in Slots : slots_[i].active}

AllActive == \A j \in Slots : j < max_sessions => slots_[j].active

\* C2: in every reachable state the number of active slots is at most
\* max_sessions, max_sessions is at most kMaxSessions (8), and no slot whose
\* index is max_sessions or more is active.
C2_ActiveSlotsBounded ==
  /\ Cardinality(ActiveSlots) <= max_sessions
  /\ max_sessions <= kMaxSessions
  /\ \A i \in Slots : i >= max_sessions => ~slots_[i].active

\* the largest configured number of sessions is active while Stop is about to stop them
C2_Witness ==
  /\ max_sessions = MaxCfgSessions
  /\ Cardinality(ActiveSlots) = max_sessions
  /\ main.pc = "stop_slot" /\ main.i = 0

\* C3: while the accept loop initializes a slot's session, marks it active and
\* starts its thread, the slot holds no thread: the previous one has ended and
\* was joined; and a thread is only ever started in a slot that holds none.
C3_JoinedBeforeReuse ==
  [][ /\ acc'.pc \in {"init", "activate", "spawn"}
           => /\ slots_'[acc'.slot].thread = "none"
              /\ slots_'[acc'.slot].pc = "none"
      /\ \A i \in Slots :
           (slots_[i].session.sock_fd < 0 /\ slots_'[i].session.sock_fd >= 0)
             => slots_[i].thread = "none" /\ slots_[i].pc = "none"
      /\ \A i \in Slots :
           (slots_[i].thread # "running" /\ slots_'[i].thread = "running")
             => slots_[i].thread = "none" /\ slots_[i].pc = "none" ]_vars

\* a slot whose earlier session was closed is being initialized again
C3_Witness ==
  /\ acc.pc = "init"
  /\ slots_[acc.slot].session.closes > 0
  /\ slots_[acc.slot].thread = "none"

\* C4: once Stop, called on a running server, has returned, the server is not
\* running, the listening socket is closed, the accept thread has ended and
\* was joined, every slot is inactive and no session thread is left.
C4_StoppedWhenStopReturns ==
  (main.pc = "idle" /\ main.last = "Stop")
    => /\ ~running_
       /\ ~listening /\ listen_fd_ = -1
       /\ accept_thread_ = "none" /\ acc.pc = "done"
       /\ \A i \in Slots : /\ ~slots_[i].active
                           /\ slots_[i].thread = "none"
                           /\ slots_[i].pc = "none"

\* Stop has returned after stopping a session that was in its read loop
C4_Witness ==
  /\ main.pc = "idle" /\ main.last = "Stop"
  /\ \E i \in Slots : slots_[i].session.shut /\ slots_[i].session.history_count = 0

\* C5: under fair scheduling of the threads, with accept failing once the
\* listening socket is closed and a read returning once the session's socket
\* is shut down, a Stop that has begun on a running server returns.
C5_StopReturns == (main.pc # "idle") ~> (main.pc = "idle" /\ main.last = "Stop")

\* Stop waits in join for a session thread that is blocked in its read
C5_Witness ==
  /\ main.pc = "stop_slot_join"
  /\ slots_[main.i].thread = "running"
  /\ slots_[main.i].pc = "recv"
  /\ slots_[main.i].rx = <<>>
  /\ slots_[main.i].session.shut

\* C6 as stated: a connection accepted while all max_sessions slots are
\* active is never given a slot.
C6_RejectedWhenFullAtAccept ==
  [][ (acc.pc = "find" /\ ~acc.hadFree) => acc'.pc \in {"find", "reject"} ]_vars

\* C6: while all max_sessions slots are active the search for a free slot
\* gives none; a connection is rejected only if every slot was active when it
\* was accepted; the rejection sends 'Server full.' and closes the connection
\* in one step that changes no slot and starts no thread, and then the loop
\* accepts again while the server runs.
C6_ServerFull ==
  [][ /\ (acc.pc = "find" /\ AllActive) => acc'.pc \in {"find", "reject"}
      /\ acc'.pc = "reject" => ~acc'.hadFree
      /\ (acc.pc = "reject" /\ acc' # acc)
           => /\ acc'.sent = StrServerFull /\ acc'.closed
              /\ acc'.pc = "loop"
              /\ slots_' = slots_
              /\ accept_thread_' = accept_thread_
      /\ (acc.pc = "loop" /\ acc.closed /\ running_ /\ acc' # acc)
           => acc'.pc = "accept" /\ accept_thread_' = "running" ]_vars

\* a connection was just rejected while every slot is active
C6_Witness ==
  /\ acc.pc = "loop" /\ acc.closed /\ acc.sent = StrServerFull
  /\ AllActive /\ max_sessions = MaxCfgSessions

-----------------------------------------------------------------------------
(* Claims about authentication (SpecAuth)                                  *)

\* the session thread processes a carriage return in the line editor
EnterStep == AtEnter /\ thr' = "loop"

HasCredentials(s) == s.username # NullStr /\ s.password # NullStr

\* C1: with credentials configured, a step of the session hands a line to
\* CommandRegistry::Execute (and so runs a handler) only if the session was already
\* Authorized when the step began; the line that completes the login is not executed.
C1_NoExecuteBeforeAuthorized ==
  [][ sess'.exec # <<>> => sess.auth = "kAuthorized" ]_vars

\* a logged-in session of a server with credentials has handed a line to Execute
C1_Witness == HasCredentials(sess) /\ sess.exec # <<>> /\ sess.auth = "kAuthorized"

\* C7: a line completed at the password prompt authorizes exactly when the line
\* completed at the username prompt equals the configured username and this line
\* equals the configured password.
C7_AuthorizedOnlyOnExactPair ==
  [][ (EnterStep /\ sess.auth = "kNeedPass")
        => ((sess'.auth = "kAuthorized")
              <=> (userLine = sess.username /\ sess.cmd_buf = sess.password)) ]_vars

\* C8: the line completed at the username prompt only moves the session to NeedPass,
\* whatever it is; the line completed at the password prompt authorizes or not as a
\* function of the two lines of this attempt alone; a failed attempt leaves NeedUser,
\* an empty user_buf_, and has passed CRLF, "Login failed." and the username prompt to
\* Send (which puts them on the socket unless output is paused).
C8_LoginAttempts ==
  [][ EnterStep =>
        /\ sess.auth = "kNeedUser" => (sess'.auth = "kNeedPass" /\ sess'.exec = <<>>)
        /\ sess.auth = "kNeedPass" =>
             /\ (sess'.auth = "kAuthorized")
                  <=> (/\ Take(userLine, kUserBufSize - 1) = sess.username
                       /\ sess.cmd_buf = sess.password)
             /\ sess'.auth # "kAuthorized" =>
                  /\ sess'.auth = "kNeedUser"
                  /\ sess'.user_buf = <<>>
                  /\ sess'.cmd_buf = <<>>
                  /\ sess'.emit = StrCRLF \o StrLoginFailed \o StrUsernamePrompt
                  /\ sess'.out = IF sess.output_paused THEN <<>> ELSE sess'.emit ]_vars

\* a failed attempt has just ended: "Login failed." and the username prompt are out
C8_Witness ==
  /\ sess.auth = "kNeedUser"
  /\ sess.out = StrCRLF \o StrLoginFailed \o StrUsernamePrompt

-----------------------------------------------------------------------------
(* Claims about the password echo (SpecEcho)                               *)

NoPassChar(str) == \A i \in DOMAIN str : str[i] \notin PassChars

\* the editor is idle: the next byte is neither part of an IAC nor of an ESC sequence
EditorIdle(s) == s.iac_phase = "kNormal" /\ s.arrow = "kNone"

\* C9: while both runs are at the password prompt, a byte other than the carriage
\* return makes both send the same bytes, whatever characters were typed; a character
\* accepted into the line is echoed as "*" and a backspace echoes nothing; and no step
\* at all, at the password prompt or later, hands a typed password character to Send.
C9_PasswordEchoMasked ==
  [][ (rx # <<>> /\ rx' = Tail(rx)) =>
        /\ NoPassChar(sess'.emit) /\ NoPassChar(sess2'.emit)
        /\ (sess.auth = "kNeedPass" /\ sess2.auth = "kNeedPass" /\ Head(rx) # ChCR) =>
             /\ sess'.out = sess2'.out
             /\ sess'.emit = sess2'.emit
             /\ (EditorIdle(sess) /\ Head(rx) \in PassChars
                 /\ Len(sess.cmd_buf) < kMaxCmdLen - 1) => sess'.emit = StrStar
             /\ (EditorIdle(sess) /\ Head(rx) \in {ChBS, ChDEL}) => sess'.emit = <<>> ]_vars

\* the two runs hold different passwords so far and both have just echoed "*"
C9_Witness ==
  /\ sess.auth = "kNeedPass" /\ sess2.auth = "kNeedPass"
  /\ sess.cmd_buf # sess2.cmd_buf
  /\ sess.out = StrStar /\ sess2.out = StrStar

-----------------------------------------------------------------------------
(* Claims about the registry (SpecRegistry)                                *)

\* C10: whatever Register, FindByName, Count and Execute calls the threads make and
\* however they interleave, no two of the first count_ entries have the same name.
C10_NoDuplicateNames ==
  \A i \in 0..(count_ - 1) : \A j \in 0..(count_ - 1) :
    i # j => entries_[i].name # entries_[j].name

\* the table is full, and a Register of a stored name has just been refused while the
\* other thread is inside Register or Execute
C10_Witness ==
  /\ count_ = kMaxCommands
  /\ \E t \in RegThreads, u \in RegThreads :
       /\ t # u
       /\ rt[t].op = "Register" /\ rt[t].pc = "idle" /\ ~rt[t].ok
       /\ rt[u].pc \in {"reg_lock", "ex_lock", "ex_handler", "read_lock"}

-----------------------------------------------------------------------------
(* Claims about the registry's calls (SpecCalls)                            *)

\* name is the name of one of the first n entries
NameAmong(es, n, name) == \E k \in 0..(n - 1) : es[k].name = name

\* C11: Register returns false and leaves the registry as it was when the
\* name or the handler is null, when the registry is full, or when the name
\* is already registered; otherwise it returns true and appends exactly one
\* entry holding its arguments.  The count never decreases and never exceeds
\* the capacity, and an entry, once stored, never changes.
C11_RegisterContract ==
  [][ /\ count_' >= count_
      /\ count_' <= kMaxCommands
      /\ \A k \in 0..(count_ - 1) : entries_'[k] = entries_[k]
      /\ lastCall'.op = "Register" =>
           IF \/ lastCall'.name = NullStr
              \/ lastCall'.fn = 0
              \/ count_ >= kMaxCommands
              \/ NameAmong(entries_, count_, lastCall'.name)
           THEN /\ ~lastCall'.ok
                /\ entries_' = entries_
                /\ count_' = count_
           ELSE /\ lastCall'.ok
                /\ count_' = count_ + 1
                /\ entries_'[count_] = [name |-> lastCall'.name, desc |-> lastCall'.desc,
                                        fn |-> lastCall'.fn, ctx |-> lastCall'.ctx]
                /\ \A k \in DOMAIN entries_ : k # count_ => entries_'[k] = entries_[k]
    ]_vars

\* a full registry has just refused a new, well-formed command
C11_Witness ==
  /\ count_ = kMaxCommands
  /\ lastCall.op = "Register"
  /\ ~lastCall.ok
  /\ lastCall.name # NullStr
  /\ lastCall.fn # 0
  /\ ~NameAmong(entries_, count_, lastCall.name)


\* the tokens of the line of the last Execute call, by the reference tokenizer
CallTokens == RefTokens(lastCall.line)

\* the last call was Execute of a line that tokenizes to a command name
ExecutedCommand ==
  /\ lastCall.op = "Execute"
  /\ CallTokens # <<>>
  /\ Len(CallTokens) <= kMaxArgs

\* C12: for a line whose first token names a registered command other than
\* help, Execute invokes that entry's handler exactly once, with argc and
\* argv equal to the tokenized line and the context stored at registration,
\* invokes no other handler, and returns the handler's return value.
C12_HandlerInvokedOnce ==
  (/\ ExecutedCommand
   /\ CallTokens[1] # StrHelp
   /\ NameAmong(entries_, count_, CallTokens[1]))
  => \E k \in 0..(count_ - 1) :
       /\ entries_[k].name = CallTokens[1]
       /\ lastCall.calls = <<[entry |-> k, argc |-> Len(CallTokens), argv |-> CallTokens,
                              ctx |-> entries_[k].ctx]>>
       /\ lastCall.ret = entries_[k].fn

\* the second entry's handler, which returns -1, has run with two arguments
\* and a non-null context
C12_Witness ==
  /\ ExecutedCommand
  /\ Len(lastCall.calls) = 1
  /\ lastCall.calls[1].entry = 1
  /\ lastCall.calls[1].argc = 2
  /\ lastCall.calls[1].ctx = 1
  /\ lastCall.ret = -1

\* C13: Execute of a line whose first token is neither help nor a registered
\* name returns -1, invokes no handler, leaves the registry unchanged, and
\* writes one message containing 'Unknown command' and that token.
C13_UnknownCommand ==
  [][ (/\ lastCall'.op = "Execute"
       /\ RefTokens(lastCall'.line) # <<>>
       /\ Len(RefTokens(lastCall'.line)) <= kMaxArgs
       /\ RefTokens(lastCall'.line)[1] # StrHelp
       /\ ~NameAmong(entries_, count_, RefTokens(lastCall'.line)[1]))
      => /\ lastCall'.ret = -1
         /\ lastCall'.calls = <<>>
         /\ entries_' = entries_ /\ count_' = count_
         /\ Len(lastCall'.output) = 1
         /\ Contains(lastCall'.output[1], Take(StrUnknownPrefix, 15))
         /\ Contains(lastCall'.output[1], RefTokens(lastCall'.line)[1])
    ]_vars

\* C14: Execute invokes no handler and writes nothing when the line has no
\* dispatchable command: it returns -2 when the line has more tokens than
\* argv holds and 0 when the line has no token at all.
C14_NothingToDispatch ==
  lastCall.op = "Execute" =>
    /\ Len(CallTokens) > kMaxArgs =>
         lastCall.ret = -2 /\ lastCall.calls = <<>> /\ lastCall.output = <<>>
    /\ CallTokens = <<>> =>
         lastCall.ret = 0 /\ lastCall.calls = <<>> /\ lastCall.output = <<>>

\* a line of too many tokens whose first names a registered command was refused
C14_Witness ==
  /\ lastCall.op = "Execute"
  /\ Len(CallTokens) > kMaxArgs
  /\ NameAmong(entries_, count_, CallTokens[1])
  /\ lastCall.ret = -2

\* C15: Execute of a line whose first token is help returns 0, invokes no
\* handler, and writes one listing line per registered entry, in registration
\* order, each containing that entry's name and description.
C15_HelpListsEveryEntry ==
  (ExecutedCommand /\ CallTokens[1] = StrHelp)
  => /\ lastCall.ret = 0
     /\ lastCall.calls = <<>>
     /\ Len(lastCall.output) = count_ + 1
     /\ \A k \in 0..(count_ - 1) :
          /\ Contains(lastCall.output[k + 2], entries_[k].name)
          /\ Contains(lastCall.output[k + 2],
                      IF entries_[k].desc = NullStr THEN <<>> ELSE entries_[k].desc)


-----------------------------------------------------------------------------
(* Claims about ShellSplit (SpecSplit)                                      *)

\* the tokens of the line of the last ShellSplit call, by the reference tokenizer
SplitTokens == RefTokens(lastCall.line)

\* C16: for every line over the alphabet with at most max_args tokens,
\* ShellSplit returns the argument list of the reference tokenizer.
C16_SplitMatchesReference ==
  (lastCall.op = "ShellSplit" /\ Len(SplitTokens) <= lastCall.max_args)
  => /\ lastCall.argc = Len(SplitTokens)
     /\ lastCall.argv = SplitTokens

\* an unquoted letter and a double-quoted single quote were joined into one
\* argument, the single quote kept as text
C16_Witness ==
  /\ lastCall.op = "ShellSplit"
  /\ lastCall.line = <<ChA, ChDQuote, ChSQuote, ChDQuote>>
  /\ lastCall.argc = 1
  /\ lastCall.argv = <<<<ChA, ChSQuote>>>>

\* C17: ShellSplit returns -1 exactly when the line has more than max_args
\* tokens, returns the count of all tokens otherwise, and never stores more
\* than max_args arguments.
C17_OverflowExactly ==
  lastCall.op = "ShellSplit" =>
    /\ lastCall.argc = -1 <=> Len(SplitTokens) > lastCall.max_args
    /\ lastCall.argc # -1 => lastCall.argc = Len(SplitTokens)
    /\ Len(lastCall.argv) <= lastCall.max_args

\* a line was refused with argv full, and the refused token was a quote
C17_Witness ==
  /\ lastCall.op = "ShellSplit"
  /\ lastCall.argc = -1
  /\ Len(lastCall.argv) = lastCall.max_args
  /\ lastCall.max_args = kMaxArgs
  /\ lastCall.line[Len(lastCall.line)] = ChDQuote


-----------------------------------------------------------------------------
(* Claims about the IAC decoder (SpecIac)                                   *)

\* the bytes received so far, in order
IacCount == Len(iacLog)

\* C18: for every command byte in WILL..DONT and every option byte, the
\* three bytes IAC, command, option received with the decoder in Normal
\* deliver no byte to the line editor and leave the decoder in Normal, so
\* that the bytes that follow are processed as ordinary input.
C18_NegotiationConsumed ==
  /\ \A i \in 1..(IacCount - 2) :
       (/\ iacLog[i].before = "kNormal"
        /\ iacLog[i].byte = kIAC
        /\ iacLog[i + 1].byte \in kWILL..kDONT)
       => /\ \A m \in i..(i + 2) :
               /\ iacLog[m].c = 0
               /\ iacLog[m].emit = <<>>
               /\ iacLog[m].cmd_buf = iacLog[i].cmd_buf
          /\ iacLog[i + 2].after = "kNormal"
          /\ (i + 3 <= IacCount /\ iacLog[i + 3].byte # kIAC)
               => iacLog[i + 3].c = iacLog[i + 3].byte
  \* IAC has just been received in Normal: every command byte is consumed
  \* and leaves the one state in which the option byte is awaited
  /\ (thr = "recv" /\ rx = <<>> /\ sess.iac_phase = "kIac")
       => \A cmd \in kWILL..kDONT :
            /\ FilterIac(sess, cmd).c = 0
            /\ FilterIac(sess, cmd).s = [sess EXCEPT !.iac_phase = "kNego"]
  \* the option byte is awaited: every byte is consumed and gives Normal
  /\ (thr = "recv" /\ rx = <<>> /\ sess.iac_phase = "kNego")
       => \A opt \in 0..255 :
            /\ FilterIac(sess, opt).c = 0
            /\ FilterIac(sess, opt).s = [sess EXCEPT !.iac_phase = "kNormal"]

\* IAC DONT IAC was consumed, and the letter after it reached the line editor
C18_Witness ==
  \E i \in 1..(IacCount - 3) :
    /\ iacLog[i].before = "kNormal"
    /\ iacLog[i].byte = kIAC
    /\ iacLog[i + 1].byte = kDONT
    /\ iacLog[i + 2].byte = kIAC
    /\ iacLog[i + 3].byte = ChA
    /\ iacLog[i + 3].c = ChA
    /\ iacLog[i + 3].emit = <<ChA>>

\* C19: two consecutive 0xFF bytes received with the decoder in Normal
\* deliver exactly one byte 0xFF to the line editor and leave the decoder in
\* Normal.
C19_EscapedIac ==
  \A i \in 1..(IacCount - 1) :
    (/\ iacLog[i].before = "kNormal"
     /\ iacLog[i].byte = kIAC
     /\ iacLog[i + 1].byte = kIAC)
    => /\ iacLog[i].c = 0
       /\ iacLog[i].cmd_buf = iacLog[i + 1].cmd_buf \/ iacLog[i + 1].cmd_buf = Append(iacLog[i].cmd_buf, kIAC)
       /\ iacLog[i + 1].c = kIAC
       /\ iacLog[i + 1].after = "kNormal"

\* IAC IAC arrived after a letter, and the line holds the letter and one 0xFF
C19_Witness ==
  /\ IacCount = 3
  /\ iacLog[1].byte = ChA
  /\ iacLog[2].byte = kIAC
  /\ iacLog[3].byte = kIAC
  /\ iacLog[3].c = kIAC
  /\ iacLog[3].cmd_buf = <<ChA, kIAC>>

\* the bytes at which the subnegotiation opened by the SB at j ends: an SE
\* that comes right after an IAC received after the SB
SubEnds(j) ==
  {k \in (j + 2)..IacCount : iacLog[k].byte = kSE /\ iacLog[k - 1].byte = kIAC}

\* the last byte of the subnegotiation opened at j, or the last byte received
SubLast(j) ==
  IF SubEnds(j) = {} THEN IacCount
  ELSE CHOOSE k \in SubEnds(j) : \A k2 \in SubEnds(j) : k <= k2

\* C20: after IAC SB is received no byte reaches the line editor until an SE
\* arrives immediately after an IAC; that SE returns the decoder to Normal
\* and the bytes after it are ordinary input; nothing else ends the
\* subnegotiation, and without IAC SE all further input is swallowed.
C20_SubnegotiationSwallowed ==
  \A j \in 2..IacCount :
    (/\ iacLog[j - 1].before = "kNormal"
     /\ iacLog[j - 1].byte = kIAC
     /\ iacLog[j].byte = kSB)
    => /\ \A m \in j..SubLast(j) :
            /\ iacLog[m].c = 0
            /\ iacLog[m].emit = <<>>
            /\ iacLog[m].cmd_buf = iacLog[j].cmd_buf
            /\ iacLog[m].after = IF m \in SubEnds(j) THEN "kNormal" ELSE "kSub"
       /\ (SubLast(j) < IacCount /\ iacLog[SubLast(j) + 1].byte # kIAC)
            => iacLog[SubLast(j) + 1].c = iacLog[SubLast(j) + 1].byte

\* IAC SB SE IAC SE a: the lone SE did not end the subnegotiation, IAC SE
\* did, and the letter after it reached the line editor
C20_Witness ==
  /\ IacCount = 6
  /\ iacLog[1].byte = kIAC
  /\ iacLog[2].byte = kSB
  /\ iacLog[3].byte = kSE
  /\ iacLog[3].after = "kSub"
  /\ iacLog[4].byte = kIAC
  /\ iacLog[5].byte = kSE
  /\ iacLog[5].after = "kNormal"
  /\ iacLog[6].c = ChA
  /\ iacLog[6].cmd_buf = <<ChA>>


-----------------------------------------------------------------------------
(* Claims about the registry lock (SpecRegistry)                            *)

\* C30: Execute has released the registry lock when the handler runs, so
\* that a handler calling back into the registry does not deadlock.
C30_HandlerRunsUnlocked ==
  \A t \in RegThreads : rt[t].pc = "ex_handler" => mutex_ # t


-----------------------------------------------------------------------------
(* Claims about the history ring (SpecHistory)                              *)

\* the list model: the pushed lines without the empty ones and without each
\* line equal to the one kept just before it
RECURSIVE RefKept(_, _)
RefKept(pushed, kept) ==
  IF pushed = <<>> THEN kept
  ELSE LET line == Head(pushed)
       IN IF line = <<>> THEN RefKept(Tail(pushed), kept)
          ELSE IF kept # <<>> /\ kept[Len(kept)] = line THEN RefKept(Tail(pushed), kept)
          ELSE RefKept(Tail(pushed), Append(kept, line))

\* C22: for any sequence of pushed lines the history ring equals the list
\* model: the count is min(|S|, capacity) and entry i (0 = most recent) is
\* the (i+1)-th most recent element of S.
C22_HistoryIsList ==
  lastCall.op = "PushHistory" =>
    LET S == RefKept(lastCall.pushed, <<>>)
    IN /\ sess.history_count = (IF Len(S) < kHistorySize THEN Len(S) ELSE kHistorySize)
       /\ \A i \in 0..(sess.history_count - 1) : GetHistory(sess, i) = S[Len(S) - i]
       /\ GetHistory(sess, sess.history_count) = NullStr

\* one line more than the ring holds was kept, after an empty line and a
\* repeated line were dropped: the oldest kept line is gone from the ring
C22_Witness ==
  /\ lastCall.op = "PushHistory"
  /\ LET S == RefKept(lastCall.pushed, <<>>)
     IN /\ Len(S) = kHistorySize + 1
        /\ Len(lastCall.pushed) >= Len(S) + 2
        /\ \E k \in 1..Len(lastCall.pushed) : lastCall.pushed[k] = <<>>
        /\ \A i \in 0..(kHistorySize - 1) : GetHistory(sess, i) # S[1]


-----------------------------------------------------------------------------
(* Claims about the end of a session under the server                      *)

\* slot i's thread takes a step of ending its session: recv reports the end
\* of the stream, Close, or the store to the slot's flag
SlotEnding(i) == SlotRecvEnd(i) \/ SlotClose(i) \/ SlotClear(i)

\* C27: when a session's read fails or the peer disconnects, the session
\* thread eventually closes its socket and marks its slot inactive; the
\* server stays running and the other sessions are unaffected.
C27_SlotFreedAfterDisconnect ==
  /\ [][ \A i \in Slots :
           SlotEnding(i) => /\ running_' = running_
                            /\ listen_fd_' = listen_fd_
                            /\ accept_thread_' = accept_thread_
                            /\ \A j \in Slots \ {i} : slots_'[j] = slots_[j] ]_vars
  /\ \A i \in 0..(MaxCfgSessions - 1) :
       (slots_[i].pc = "recv" /\ slots_[i].peer = "closed" /\ slots_[i].rx = <<>>)
         ~> (~slots_[i].active /\ slots_[i].session.sock_fd < 0)

\* on a running server, slot 0, whose session ended when its peer
\* disconnected, is given to a new connection
C27_Witness ==
  /\ running_
  /\ acc.pc = "init" /\ acc.slot = 0
  /\ ~slots_[0].active
  /\ slots_[0].session.closes = 1
  /\ ~slots_[0].session.shut


\* the accept thread takes a connection's descriptor out of its hands: by
\* rejecting it, or by giving it to a slot
AcceptDisposes == acc.fd >= 0 /\ acc'.pc = "loop" /\ acc.pc # "loop"

\* C28: the socket of every accepted connection is closed exactly once, whether
\* its session ends by a disconnect, by exit or by Stop, or the connection is
\* rejected; and no slot is initialized with a new socket while its session
\* still holds an open one.
C28_SocketClosedOnce ==
  /\ [](\A i \in Slots :
          LET s == slots_[i].session
          IN /\ s.closes <= 1
             /\ s.sock_fd >= 0 => s.closes = 0
             /\ (slots_[i].pc \in {"clear", "return"} \/ slots_[i].thread = "exited")
                  => s.sock_fd < 0 /\ s.closes = 1
             /\ (s.sock_fd >= 0 /\ slots_[i].pc = "none") => acc.pc = "activate" \/ acc.pc = "spawn")
  /\ [][ /\ AcceptInit => /\ slots_[acc.slot].session.sock_fd < 0
                          /\ slots_[acc.slot].pc = "none"
                          /\ slots_'[acc.slot].session.sock_fd = acc.fd
         /\ AcceptDisposes => \/ acc'.closed /\ acc.pc = "reject"
                              \/ /\ acc.pc = "spawn"
                                 /\ slots_'[acc.slot].thread = "running"
                                 /\ slots_[acc.slot].session.sock_fd = acc.fd ]_vars

\* Stop has returned: the session of slot 0 was ended by Stop and the session
\* of slot 1 had ended before by itself, each with its socket closed once
C28_Witness ==
  /\ main.last = "Stop" /\ main.pc = "idle" /\ ~running_
  /\ slots_[0].session.shut /\ slots_[0].session.closes = 1
  /\ ~slots_[1].session.shut /\ slots_[1].session.closes = 1
  /\ \A i \in Slots : slots_[i].session.sock_fd < 0


\* everything of the server but the caller's position
ServerState == <<running_, listen_fd_, listening, accept_thread_, max_sessions, slots_, acc>>

\* slot i holds no session and no thread
SlotFree(i) ==
  /\ ~slots_[i].active
  /\ slots_[i].thread = "none" /\ slots_[i].pc = "none"
  /\ slots_[i].session.sock_fd < 0

\* C29: Start on a running server returns false and changes nothing; Stop on a
\* stopped server changes nothing; a Start that succeeds after a completed Stop
\* leaves the server running, listening, with its accept loop started and every
\* slot free.
C29_StartStopIdempotent ==
  [][ /\ (Start /\ running_) =>
           main'.last = "Start_refused" /\ ServerState' = ServerState
      /\ (StopCall /\ ~running_) =>
           main'.last = "Stop_noop" /\ main'.pc = "idle" /\ ServerState' = ServerState
      /\ (Start /\ ~running_ /\ main'.last = "Start_ok") =>
           /\ running_' /\ listening' /\ listen_fd_' >= 0
           /\ accept_thread_' = "running" /\ acc'.pc = "loop"
           /\ \A i \in Slots : SlotFree(i)' ]_vars

\* the server runs again after a Stop that ended a session
C29_Witness ==
  /\ main.last = "Start_ok" /\ running_ /\ accept_thread_ = "running"
  /\ \A i \in Slots : SlotFree(i)
  /\ \E i \in Slots : slots_[i].session.shut /\ slots_[i].session.closes = 1


-----------------------------------------------------------------------------
(* Claims about the line editor                                            *)

\* the byte in hand reaches ProcessChar's branches for single characters
AtChar(c) == /\ thr = "recv" /\ rx # <<>> /\ Head(rx) = c
             /\ sess.iac_phase = "kNormal" /\ sess.arrow = "kNone"

\* C21: the line never holds more than kMaxCmdLen - 1 characters (255 in the
\* source), also after a history entry was recalled into it; a character that
\* arrives while the line is full leaves the line as it is and nothing is echoed.
C21_LineWithinCapacity ==
  /\ [](Len(sess.cmd_buf) <= kMaxCmdLen - 1)
  /\ [][ (SessRecv /\ AtChar(ChA) /\ Len(sess.cmd_buf) = kMaxCmdLen - 1) =>
           /\ sess'.cmd_buf = sess.cmd_buf
           /\ sess'.emit = <<>> ]_vars

\* a letter was typed at a full line that had been recalled from the history:
\* the line is the same and nothing was sent
C21_Witness ==
  /\ lastCall.op = "edit" /\ lastCall.last = <<ChA>>
  /\ thr = "loop" /\ rx = <<>>
  /\ Len(sess.cmd_buf) = kMaxCmdLen - 1
  /\ sess.history_nav >= 0
  /\ sess.cmd_buf = GetHistory(sess, sess.history_nav)
  /\ sess.emit = <<>>


\* the byte in hand is the 'A' that ends the k-th Up-arrow typed in a row at a
\* fresh prompt
AtUp(k) == /\ thr = "recv" /\ rx = <<ChUp>>
           /\ sess.iac_phase = "kNormal" /\ sess.arrow = "kBracket"
           /\ lastCall.op = "edit" /\ lastCall.ups = k

\* C23: the k-th Up-arrow in a row from a fresh prompt puts the k-th most
\* recent history entry in the line, for k up to the number of entries; an
\* Up-arrow beyond that changes neither the line nor the history cursor and
\* sends nothing.
C23_UpWalksBack ==
  [][ \A k \in 1..MaxUps :
        (SessRecv /\ AtUp(k)) =>
          IF k <= sess.history_count
            THEN /\ sess'.cmd_buf = GetHistory(sess, k - 1)
                 /\ sess'.history_nav = k - 1
                 /\ sess'.history = sess.history
            ELSE /\ sess'.cmd_buf = sess.cmd_buf
                 /\ sess'.history_nav = sess.history_nav
                 /\ sess'.emit = <<>> ]_vars

\* with a full history of different lines, one Up-arrow more than there are
\* entries was typed: the oldest entry is still in the line, nothing was sent
C23_Witness ==
  /\ lastCall.op = "edit" /\ lastCall.last = StrUpArrow
  /\ lastCall.ups = kHistorySize + 1
  /\ thr = "loop" /\ rx = <<>>
  /\ sess.history_count = kHistorySize
  /\ sess.history_nav = kHistorySize - 1
  /\ sess.cmd_buf = GetHistory(sess, kHistorySize - 1)
  /\ sess.cmd_buf # GetHistory(sess, 0)
  /\ sess.emit = <<>>


\* the authorized session is about to complete a line that is exit or quit
AtExit == /\ AtEnter /\ sess.auth = "kAuthorized"
          /\ sess.cmd_buf \in {StrExit, StrQuit}

\* what a session that completed exit or quit does apart from the farewell: the
\* registry is not called, the loop reads no further byte, and Run ends with
\* the socket closed once and the byte typed after the line still unread
ExitEndsSession ==
  /\ [][ (SessRecv /\ AtExit) => /\ sess'.exec = <<>>
                                 /\ ~sess'.running
                                 /\ Contains(sess'.emit, StrBye) ]_vars
  /\ [][ SessRecv => sess.running ]_vars
  /\ [](thr = "done" => sess.sock_fd < 0 /\ sess.closes = 1)
  /\ []((thr = "done" /\ lastCall.op = "edit" /\ Len(lastCall.last) > 1
           /\ Take(lastCall.last, 4) \in {StrExit, StrQuit}) => rx = <<ChA>>)

-----------------------------------------------------------------------------
(* Claims about paused output and Broadcast                                *)

\* C24: while a session's output is paused (from the Ctrl-S to the next Ctrl-Q
\* its line editor processes) no byte is sent on its socket: not by the session
\* thread, whose input is still processed, and not by Broadcast.
C24_NoOutputWhilePaused ==
  /\ \A i \in Slots : slots_[i].session.output_paused => slots_[i].session.out = <<>>
  /\ \A k \in 1..Len(bc.sends) : ~bc.sends[k].paused

\* C26: Broadcast never issues a send on a descriptor that the owning session
\* has already closed, and sends nothing to a slot that is not active.
C26_NoSendAfterClose ==
  \A k \in 1..Len(bc.sends) : ~bc.sends[k].closed /\ bc.sends[k].active


-----------------------------------------------------------------------------
(* Claims about the fields of a session shared between threads             *)

\* the broadcasting thread's next step reads sock_fd_ or output_paused_ of slot
\* i's session: both are plain members, read in Send without a lock
BcReads(i) == bc.i = i /\ bc.pc \in {"check", "paused", "send"}

\* slot i's session thread's next step writes one of the two members: Close
\* stores sock_fd_ = -1, ProcessChar stores output_paused_ on Ctrl-S and Ctrl-Q
SessionWrites(i) ==
  \/ slots_[i].pc = "close" /\ slots_[i].session.sock_fd >= 0
  \/ /\ slots_[i].pc = "recv" /\ slots_[i].rx # <<>>
     /\ Head(slots_[i].rx) \in {ChXOFF, ChXON}
     /\ slots_[i].session.iac_phase = "kNormal" /\ slots_[i].session.arrow = "kNone"

\* the accept thread's next step is Init on slot i, which stores both members
InitWrites(i) == acc.pc = "init" /\ acc.slot = i

\* C31: no reachable state has a broadcasting thread about to read a session's
\* pause flag or socket handle while the session's own thread, or the accept
\* thread in Init, is about to write it with nothing ordering the two.
C31_NoConcurrentAccess ==
  \A i \in Slots : BcReads(i) => ~SessionWrites(i) /\ ~InitWrites(i)


-----------------------------------------------------------------------------
(* Claims about the line editor's control characters                       *)

\* the prompt that belongs to an authentication state
PromptFor(s) ==
  CASE s.auth = "kNeedUser" -> StrUsernamePrompt
    [] s.auth = "kNeedPass" -> StrPasswordPrompt
    [] s.auth = "kAuthorized" -> s.prompt

\* the number of places in text where one of the three prompts begins
PromptCount(s, text) ==
  Cardinality({k \in 1..Len(text) :
    \E p \in {StrUsernamePrompt, StrPasswordPrompt, s.prompt} :
      k + Len(p) - 1 <= Len(text) /\ SubSeq(text, k, k + Len(p) - 1) = p})

AtDown == /\ thr = "recv" /\ rx = <<ChDown>>
          /\ sess.iac_phase = "kNormal" /\ sess.arrow = "kBracket"

\* C33: a Down-arrow with the history cursor at k > 0 puts entry k-1 in the
\* line; at cursor 0 it empties the line and ends the navigation; with no
\* navigation in progress it changes nothing and sends nothing.  So after k
\* Up-arrows and then k Down-arrows from a fresh prompt the line is empty and
\* no navigation is in progress.
C33_DownWalksForward ==
  /\ [][ (SessRecv /\ AtDown) =>
           IF sess.history_nav > 0
             THEN /\ sess'.cmd_buf = GetHistory(sess, sess.history_nav - 1)
                  /\ sess'.history_nav = sess.history_nav - 1
           ELSE IF sess.history_nav = 0
             THEN /\ sess'.cmd_buf = <<>>
                  /\ sess'.history_nav = -1
           ELSE /\ sess'.cmd_buf = sess.cmd_buf
                /\ sess'.history_nav = -1
                /\ sess'.emit = <<>> ]_vars
  /\ []((/\ lastCall.op = "edit" /\ lastCall.last = StrDownArrow
         /\ lastCall.ups >= 1 /\ lastCall.downs = lastCall.ups
         /\ thr = "loop" /\ rx = <<>>)
          => sess.cmd_buf = <<>> /\ sess.history_nav = -1)

\* with a full history, as many Up-arrows as there are entries and then as
\* many Down-arrows were typed: the last one erased the recalled line
C33_Witness ==
  /\ lastCall.op = "edit" /\ lastCall.last = StrDownArrow
  /\ lastCall.ups = kHistorySize /\ lastCall.downs = kHistorySize
  /\ thr = "loop" /\ rx = <<>>
  /\ sess.history_count = kHistorySize
  /\ sess.cmd_buf = <<>> /\ sess.history_nav = -1
  /\ sess.emit = Repeat(StrEraseSeq, Len(GetHistory(sess, 0)))

\* the character FilterIac hands to ProcessChar for the byte being received
\* (0: none, the byte belongs to the Telnet layer or is NUL)
EscChar == IF thr = "recv" /\ rx # <<>> THEN FilterIac(Fresh(sess), Head(rx)).c ELSE 0

\* the step changed nothing of the session but the decoders' phases, and sent
\* and executed nothing
OnlyPhaseChanged ==
  [sess' EXCEPT !.arrow = "kNone", !.iac_phase = "kNormal"]
    = [Fresh(sess) EXCEPT !.arrow = "kNone", !.iac_phase = "kNormal"]

\* C34: an ESC handed to the line editor outside a sequence starts the arrow
\* decoder; the next character handed to the editor, and when that one is '['
\* the one after it, is consumed by the decoder whatever it is: it is not
\* appended to the line, completes no line, leaves the pause flag alone and
\* sends nothing unless it is 'A' or 'B' after ESC '[', which recall history;
\* the decoder is back at kNone after at most two such characters.
C34_EscapeConsumesChars ==
  [][ (EscRecv /\ EscChar # 0) =>
        /\ (sess.arrow = "kNone" /\ EscChar = ChESC) =>
              sess'.arrow = "kEsc" /\ OnlyPhaseChanged
        /\ sess.arrow = "kEsc" =>
              /\ sess'.arrow = IF EscChar = ChLBracket THEN "kBracket" ELSE "kNone"
              /\ OnlyPhaseChanged
        /\ sess.arrow = "kBracket" =>
              /\ sess'.arrow = "kNone"
              /\ sess'.output_paused = sess.output_paused
              /\ sess'.exec = <<>>
              /\ sess'.history = sess.history
              /\ sess'.history_count = sess.history_count
              /\ sess'.running = sess.running
              /\ EscChar \notin {ChUp, ChDown} => OnlyPhaseChanged
              /\ sess'.cmd_buf \in {sess.cmd_buf, <<>>}
                                     \cup {GetHistory(sess, k) : k \in 0..(kHistorySize - 1)} ]_vars

\* C34 as stated for bytes: the byte after the ESC, and the one after an
\* ESC '[', always ends up in the arrow decoder
C34_EscapeConsumesBytes ==
  /\ (lastCall.op = "esc" /\ lastCall.since = 1 /\ lastCall.first # ChLBracket)
        => sess.arrow = "kNone"
  /\ (lastCall.op = "esc" /\ lastCall.since = 2) => sess.arrow = "kNone"

\* 'a', ESC, NUL, Enter: the NUL never reached the decoder, which consumed
\* the Enter instead; the line is still "a" and no prompt was sent
C34_Witness ==
  /\ lastCall.op = "esc" /\ lastCall.since = 2
  /\ lastCall.first = ChNUL /\ lastCall.last = ChCR
  /\ rx = <<>>
  /\ sess.arrow = "kNone"
  /\ sess.cmd_buf = <<ChA>>
  /\ sess.emit = <<>>

AtLF == thr = "recv" /\ rx # <<>> /\ Head(rx) = ChLF

\* C35: a received LF never completes a line and is never stored: whatever
\* the position, the step that processes it leaves the line, the login state,
\* the history and the pause flag as they were, sends nothing and executes
\* nothing, so CR LF completes the one line the CR completed; outside an
\* escape and an IAC sequence it changes nothing at all.
C35_LfIgnored ==
  [][ (EscRecv /\ AtLF) =>
        /\ OnlyPhaseChanged
        /\ (sess.arrow = "kNone" /\ sess.iac_phase = "kNormal") => sess' = Fresh(sess) ]_vars

\* 'a', CR, LF on a session without login: the CR stored and executed the
\* line, the LF after it was dropped with the line still empty
C35_Witness ==
  /\ lastCall.op = "esc" /\ lastCall.n = 3 /\ lastCall.last = ChLF
  /\ rx = <<>>
  /\ sess.username = NullStr
  /\ sess.history_count = 1 /\ GetHistory(sess, 0) = <<ChA>>
  /\ sess.cmd_buf = <<>>
  /\ sess.emit = <<>> /\ sess.exec = <<>>

\* the session state a connection starts from under the given login
FreshFor(s, login) ==
  /\ s.cmd_buf = <<>> /\ s.user_buf = <<>>
  /\ s.history_count = 0 /\ s.history_write = 0 /\ s.history_nav = -1
  /\ \A k \in 0..(kHistorySize - 1) : s.history[k] = <<>>
  /\ ~s.output_paused
  /\ s.iac_phase = "kNormal"
  /\ s.arrow = "kNone"
  /\ s.running
  /\ s.auth = IF login.username # NullStr /\ login.password # NullStr
              THEN "kNeedUser" ELSE "kAuthorized"

\* C36: the session object of every accepted connection is fresh when Init
\* returns and still fresh when the connection's thread enters Run, whatever
\* the slot's previous connection left in it: empty line, empty history, not
\* paused, both decoders idle, and kNeedUser when username and password are
\* both configured, kAuthorized otherwise.
C36_FreshConnection ==
  /\ [][ReuseInit => FreshFor(slots_'[acc.slot].session, config_)]_vars
  /\ [](\A i \in Slots : slots_[i].pc = "start" => FreshFor(slots_[i].session, config_))

\* under the login a / a the slot's previous client logged in and ran a
\* command; the next connection in the same slot is about to enter Run
C36_Witness ==
  /\ lastCall.op = "init" /\ lastCall.reused
  /\ config_.password # NullStr
  /\ lastCall.before.auth = "kAuthorized"
  /\ lastCall.before.history_count = 1
  /\ slots_[lastCall.slot].pc = "start"
  /\ slots_[lastCall.slot].session.auth = "kNeedUser"
  /\ slots_[lastCall.slot].session.history_count = 0

\* the final byte of an Up- or Down-arrow is being received
AtArrowKey ==
  /\ thr = "recv" /\ rx # <<>> /\ Head(rx) \in {ChUp, ChDown}
  /\ sess.iac_phase = "kNormal" /\ sess.arrow = "kBracket"

HasChar(str, c) == \E j \in 1..Len(str) : str[j] = c

\* C37: while the session is not authorized its history is empty and no
\* navigation is in progress; an Up- or Down-arrow at a login prompt changes
\* nothing and sends nothing.  So the password b of SpecRecall, which the
\* client types at the login prompts only, is in no history entry at any
\* time, and once the session is authorized no step sends it.
C37_NoHistoryBeforeLogin ==
  /\ [](sess.auth # "kAuthorized" =>
          /\ sess.history_count = 0 /\ sess.history_nav = -1
          /\ \A k \in 0..(kHistorySize - 1) : sess.history[k] = <<>>)
  /\ [][ (SessRecv /\ AtArrowKey /\ sess.auth # "kAuthorized") =>
           sess' = [Fresh(sess) EXCEPT !.arrow = "kNone"] ]_vars
  /\ [](\A k \in 0..(kHistorySize - 1) : ~HasChar(sess.history[k], ChB))
  /\ [][ (SessRecv /\ sess.auth = "kAuthorized") => ~HasChar(sess'.emit, ChB) ]_vars

\* after the login a / b and the command a, an Up-arrow recalled the command:
\* the only entry there is
C37_Witness ==
  /\ lastCall.op = "recall" /\ lastCall.last = StrUpArrow /\ lastCall.at = "kAuthorized"
  /\ thr = "loop" /\ rx = <<>>
  /\ sess.password = <<ChB>>
  /\ sess.history_count = 1
  /\ sess.history_nav = 0
  /\ sess.cmd_buf = <<ChA>>

\* C38: in every state -1 <= history_nav_ < history_count_ <= kHistorySize,
\* and the entries 0 .. history_count_ - 1 are slots of the ring that a
\* PushHistory wrote; so the GetHistory of every recall returns a stored
\* line, whatever lines, Up- and Down-arrows were typed.
C38_CursorInRange ==
  /\ [](/\ -1 <= sess.history_nav
        /\ sess.history_nav < sess.history_count
        /\ sess.history_count <= kHistorySize
        /\ sess.history_write \in 0..(kHistorySize - 1)
        /\ \A k \in 0..(sess.history_count - 1) :
              GetHistory(sess, k) # NullStr /\ GetHistory(sess, k) # <<>>)
  /\ [][ (SessRecv /\ AtArrowKey /\ sess'.history_nav # sess.history_nav
            /\ sess'.history_nav >= 0) =>
           /\ sess'.history_nav < sess.history_count
           /\ sess'.cmd_buf = GetHistory(sess, sess'.history_nav)
           /\ sess'.cmd_buf # <<>> ]_vars

\* the history is full, the ring has wrapped, and the cursor is on the oldest
\* entry after as many Up-arrows as there are entries
C38_Witness ==
  /\ lastCall.op = "edit" /\ lastCall.last = StrUpArrow
  /\ thr = "loop" /\ rx = <<>>
  /\ sess.history_count = kHistorySize
  /\ sess.history_write = 1
  /\ sess.history_nav = kHistorySize - 1
  /\ sess.cmd_buf = GetHistory(sess, kHistorySize - 1)

\* the threads inside a command handler
InHandler == {t \in RegThreads : rt[t].pc = "ex_handler"}

\* C39: at most one thread is inside a command handler of the registry, and
\* it holds the registry lock; while it is there the registry does not
\* change, and another thread gets no further than the entry of Register,
\* FindByName, Count, Execute or the help listing: it makes no step past the
\* lock of any of them before the handler has returned.
C39_OneHandlerAtATime ==
  /\ [](/\ Cardinality(InHandler) <= 1
        /\ \A t \in InHandler : mutex_ = t)
  /\ [][ \A t \in InHandler :
           /\ entries_' = entries_ /\ count_' = count_
           /\ \A u \in RegThreads \ {t} :
                 rt'[u] # rt[u] =>
                   /\ rt[u].pc = "idle"
                   /\ rt'[u].pc \in {"idle", "reg_lock", "read_lock", "ex_lock", "help_lock"} ]_vars

\* thread 1 is inside the handler of a command that thread 2 wants to
\* execute too: thread 2 waits for the lock
C39_Witness ==
  /\ rt[1].pc = "ex_handler"
  /\ rt[2].pc = "ex_lock"
  /\ rt[2].argv[1] = rt[1].argv[1]
  /\ mutex_ = 1

\* the server is running without its accept loop
AcceptDead == running_ /\ accept_thread_ = "exited"

\* C40: when accept fails on a running server the accept thread ends and the
\* server stays running, its sessions untouched.  From then on no connection
\* is accepted and no slot is given a session, Start is refused and changes
\* nothing, the sessions that are reading keep running with their sockets
\* open, and only a call of Stop ends that state; when Stop has returned the
\* accept thread is joined and every slot is free.
C40_AcceptFailureKeepsRunning ==
  /\ [][ (AcceptFail /\ running_) =>
           AcceptDead' /\ slots_' = slots_ /\ listen_fd_' = listen_fd_ ]_vars
  /\ [][ AcceptDead =>
           /\ acc.pc = "done" /\ acc' = acc
           /\ \A i \in Slots :
                 /\ slots_'[i].active => slots_[i].active
                 /\ slots_'[i].session.sock_fd >= 0 =>
                       slots_'[i].session.sock_fd = slots_[i].session.sock_fd
           /\ Start => main'.last = "Start_refused" /\ ServerState' = ServerState
           /\ AcceptDead' \/ StopCall ]_vars
  /\ [](AcceptDead =>
          \A i \in Slots : slots_[i].pc = "recv" =>
            slots_[i].session.running /\ ~slots_[i].session.shut)
  /\ []((main.last = "Stop" /\ main.pc = "idle" /\ ~running_) =>
          accept_thread_ = "none" /\ \A i \in Slots : SlotFree(i))

\* accept has failed, a Start was refused, and the session of slot 0 has
\* input to process
C40_Witness ==
  /\ AcceptDead /\ acc.pc = "done"
  /\ main.pc = "idle" /\ main.last = "Start_refused"
  /\ slots_[0].active /\ slots_[0].pc = "recv" /\ slots_[0].rx # <<>>
  /\ slots_[0].session.running

====
